---- MODULE Spec2Model ----
(***************************************************************************)
(* A model of the natural-language pipeline of airtable-mcp:               *)
(*   NaturalLanguageProcessor  (app/nlp/natural-language-processor.ts)     *)
(*   ContextHandler            (app/nlp/context-handler.ts)                *)
(*   IntentMapper, ValidationEngine, SemanticAnalyzer                      *)
(*   handleNaturalLanguageQuery (the process_natural_language tool)        *)
(*                                                                         *)
(* Queries are character strings.  The regular expressions of the source   *)
(* are written as data (sequences of atoms) and run by a backtracking      *)
(* matcher with the priorities of the JavaScript engine, so that the       *)
(* match, its end (lastIndex) and its capture are those of the code.       *)
(***************************************************************************)
EXTENDS Integers, Sequences, FiniteSets, TLC

(***************************************************************************)
(* Strings and characters                                                  *)
(***************************************************************************)
Ch(s, i) == SubSeq(s, i, i)

LowerLetters ==
  {"a","b","c","d","e","f","g","h","i","j","k","l","m",
   "n","o","p","q","r","s","t","u","v","w","x","y","z"}
UpperLetters ==
  {"A","B","C","D","E","F","G","H","I","J","K","L","M",
   "N","O","P","Q","R","S","T","U","V","W","X","Y","Z"}
Digits == {"0","1","2","3","4","5","6","7","8","9"}
\* \w of a JavaScript regular expression without the u flag: ASCII only
WordChars == LowerLetters \cup UpperLetters \cup Digits \cup {"_"}
\* \s
Whitespace == {" ", "\t"}
\* the accented letters the source's character classes list: áéíóúñÑ
Accented == {"á","é","í","ó","ú","ñ","Ñ"}

UpperToLower ==
  [c \in UpperLetters \cup {"Á","É","Í","Ó","Ú","Ñ"} |->
     CASE c = "A" -> "a" [] c = "B" -> "b" [] c = "C" -> "c" [] c = "D" -> "d"
       [] c = "E" -> "e" [] c = "F" -> "f" [] c = "G" -> "g" [] c = "H" -> "h"
       [] c = "I" -> "i" [] c = "J" -> "j" [] c = "K" -> "k" [] c = "L" -> "l"
       [] c = "M" -> "m" [] c = "N" -> "n" [] c = "O" -> "o" [] c = "P" -> "p"
       [] c = "Q" -> "q" [] c = "R" -> "r" [] c = "S" -> "s" [] c = "T" -> "t"
       [] c = "U" -> "u" [] c = "V" -> "v" [] c = "W" -> "w" [] c = "X" -> "x"
       [] c = "Y" -> "y" [] c = "Z" -> "z" [] c = "Á" -> "á" [] c = "É" -> "é"
       [] c = "Í" -> "í" [] c = "Ó" -> "ó" [] c = "Ú" -> "ú" [] c = "Ñ" -> "ñ"]

RECURSIVE MapChars(_, _, _)
\* the string made of f(c) for the characters c of s from position i on
MapChars(s, i, f) ==
  IF i > Len(s) THEN ""
  ELSE (IF Ch(s, i) \in DOMAIN f THEN f[Ch(s, i)] ELSE Ch(s, i)) \o MapChars(s, i + 1, f)

\* String.prototype.toLowerCase
toLowerCase(s) == MapChars(s, 1, UpperToLower)

LowerToUpper ==
  [c \in {UpperToLower[u] : u \in DOMAIN UpperToLower} |->
     CHOOSE u \in DOMAIN UpperToLower : UpperToLower[u] = c]

\* String.prototype.toUpperCase
toUpperCase(s) == MapChars(s, 1, LowerToUpper)

RECURSIVE RunLen(_, _, _, _, _)
\* how many characters of s, from 0-based position i on, lie in the class (c, or with
\* neg every character outside c); at most max of them (max < 0: no limit)
RunLen(s, i, c, neg, max) ==
  IF max = 0 \/ i >= Len(s) \/ ((Ch(s, i + 1) \in c) = neg) THEN 0
  ELSE 1 + RunLen(s, i + 1, c, neg, IF max < 0 THEN max ELSE max - 1)

\* String.prototype.trim
trim(s) ==
  LET lead == RunLen(s, 0, Whitespace, FALSE, -1)
      RECURSIVE Last(_)
      Last(j) == IF j > lead /\ Ch(s, j) \in Whitespace THEN Last(j - 1) ELSE j
  IN  SubSeq(s, lead + 1, Last(Len(s)))

RECURSIVE includesFrom(_, _, _)
includesFrom(s, k, i) ==
  IF i + Len(k) - 1 > Len(s) THEN FALSE
  ELSE SubSeq(s, i, i + Len(k) - 1) = k \/ includesFrom(s, k, i + 1)

\* String.prototype.includes
includes(s, k) == includesFrom(s, k, 1)

(***************************************************************************)
(* Regular expressions as data                                             *)
(***************************************************************************)
Lit(s) == [k |-> "lit", s |-> s]
\* a character class with a quantifier: {min, max} (max < 0: no limit), greedy or lazy
Cls(c, min, max, greedy) ==
  [k |-> "cls", c |-> c, neg |-> FALSE, min |-> min, max |-> max, greedy |-> greedy]
\* a negated class [^...]
NCls(c, min, max, greedy) ==
  [k |-> "cls", c |-> c, neg |-> TRUE, min |-> min, max |-> max, greedy |-> greedy]
Alt(alts) == [k |-> "alt", alts |-> alts]
Opt(p) == Alt(<<p, <<>>>>)
Cap(p) == [k |-> "cap", p |-> p]
EndCap(from) == [k |-> "endcap", from |-> from]
Eos == [k |-> "eos"]                         \* $
Wb == [k |-> "wb"]                           \* \b

WS1 == Cls(Whitespace, 1, -1, TRUE)          \* \s+
WS0 == Cls(Whitespace, 0, -1, TRUE)          \* \s*
W1 == Cls(WordChars, 1, -1, TRUE)            \* \w+
D1 == Cls(Digits, 1, -1, TRUE)               \* \d+

\* \b at 0-based position i of s
WordBoundary(s, i) ==
  LET before == i > 0 /\ Ch(s, i) \in WordChars
      after == i < Len(s) /\ Ch(s, i + 1) \in WordChars
  IN before # after

NoMatch == [start |-> -1, end |-> -1, cap |-> ""]

RECURSIVE MatchHere(_, _, _, _)
RECURSIVE TryCounts(_, _, _, _, _, _, _)
RECURSIVE TryAlts(_, _, _, _, _, _)

\* the first way, in the engine's priority order, in which the atoms of pat match
\* s at 0-based position i; cap is the capture so far
MatchHere(pat, s, i, cap) ==
  IF Len(pat) = 0 THEN [start |-> -1, end |-> i, cap |-> cap]
  ELSE LET a == Head(pat)
           rest == Tail(pat)
       IN CASE a.k = "lit" ->
                 IF i + Len(a.s) <= Len(s) /\ SubSeq(s, i + 1, i + Len(a.s)) = a.s
                 THEN MatchHere(rest, s, i + Len(a.s), cap)
                 ELSE NoMatch
            [] a.k = "cls" ->
                 LET run == RunLen(s, i, a.c, a.neg, a.max)
                 IN IF run < a.min THEN NoMatch
                    ELSE IF a.greedy
                         THEN TryCounts(rest, s, i, cap, run, a.min, -1)
                         ELSE TryCounts(rest, s, i, cap, a.min, run, 1)
            [] a.k = "alt" -> TryAlts(a.alts, 1, rest, s, i, cap)
            [] a.k = "cap" -> MatchHere(a.p \o <<EndCap(i)>> \o rest, s, i, cap)
            [] a.k = "endcap" -> MatchHere(rest, s, i, SubSeq(s, a.from + 1, i))
            [] a.k = "eos" -> IF i = Len(s) THEN MatchHere(rest, s, i, cap) ELSE NoMatch
            [] a.k = "wb" -> IF WordBoundary(s, i) THEN MatchHere(rest, s, i, cap) ELSE NoMatch

\* a quantified class: the counts n, n + step, ..., last in turn (backtracking)
TryCounts(rest, s, i, cap, n, last, step) ==
  LET r == MatchHere(rest, s, i + n, cap)
  IN IF r.end # -1 THEN r
     ELSE IF n = last THEN NoMatch
     ELSE TryCounts(rest, s, i, cap, n + step, last, step)

\* an alternation: the alternatives from the j-th on, in order
TryAlts(alts, j, rest, s, i, cap) ==
  IF j > Len(alts) THEN NoMatch
  ELSE LET r == MatchHere(alts[j] \o rest, s, i, cap)
       IN IF r.end # -1 THEN r ELSE TryAlts(alts, j + 1, rest, s, i, cap)

RECURSIVE Exec(_, _, _)
\* RegExp.prototype.exec from 0-based position i: the leftmost match at or after i
Exec(pat, s, i) ==
  IF i > Len(s) THEN NoMatch
  ELSE LET r == MatchHere(pat, s, i, "")
       IN IF r.end # -1 THEN [start |-> i, end |-> r.end, cap |-> r.cap]
          ELSE Exec(pat, s, i + 1)

\* String.prototype.match with a regular expression without the g flag
match(s, pat) == Exec(pat, s, 0)

RECURSIVE ReplaceAllFrom(_, _, _, _)
\* String.prototype.replace with a g-flagged regular expression (which never matches
\* the empty string) and a fixed replacement, from 0-based position i on
ReplaceAllFrom(s, pat, by, i) ==
  LET r == Exec(pat, s, i)
  IN IF r.end = -1 THEN SubSeq(s, i + 1, Len(s))
     ELSE SubSeq(s, i + 1, r.start) \o by \o ReplaceAllFrom(s, pat, by, r.end)

ReplaceAll(s, pat, by) == ReplaceAllFrom(s, pat, by, 0)

\* /\b(w1|w2|...)\b/ for words = <<w1, w2, ...>>
WordOf(words) == <<Wb, Alt([j \in 1..Len(words) |-> <<Lit(words[j])>>]), Wb>>

(***************************************************************************)
(* NaturalLanguageProcessor.normalizeQuery                                 *)
(***************************************************************************)
\* the characters /[^\w\s\.\-\_\@\#]/ leaves
KeptChars == WordChars \cup Whitespace \cup {".", "-", "_", "@", "#"}

normalizeQuery(query) ==
  LET a == toLowerCase(query)
      b == trim(a)
      c == ReplaceAll(b, <<WS1>>, " ")
      d == ReplaceAll(c, <<NCls(KeptChars, 1, 1, TRUE)>>, "")
      e == ReplaceAll(d, WordOf(<<"crea", "crear", "nuevo", "nueva">>), "crear")
      f == ReplaceAll(e, WordOf(<<"mostrar", "mostrarme", "muestra", "ver", "listar">>), "listar")
      g == ReplaceAll(f, WordOf(<<"actualizar", "modificar", "cambiar", "editar">>), "actualizar")
      h == ReplaceAll(g, WordOf(<<"eliminar", "borrar", "suprimir">>), "eliminar")
  IN  ReplaceAll(h, WordOf(<<"buscar", "encontrar", "filtrar">>), "buscar")

(***************************************************************************)
(* IntentMapper                                                            *)
(***************************************************************************)
\* JavaScript's null, for currentTable, currentRecordId, currentBaseId.  No string a
\* query can yield contains "<".
null == "<null>"

\* IntentMapper.intentPatterns, a Map in insertion order.  Every pattern carries the
\* flags g and i; a capturing group whose capture is not read is written as a
\* plain group.
intentPatterns ==
  <<
    [intent |-> "list_bases", patterns |-> <<
       \* /listar\s+(todas\s+mis\s+)?bases\s+airtable\s+accesibles/gi
       <<Lit("listar"), WS1, Opt(<<Lit("todas"), WS1, Lit("mis"), WS1>>), Lit("bases"), WS1, Lit("airtable"), WS1, Lit("accesibles")>>,
       \* /mostrarme\s+todas\s+mis\s+bases/gi
       <<Lit("mostrarme"), WS1, Lit("todas"), WS1, Lit("mis"), WS1, Lit("bases")>>,
       \* /qué\s+bases\s+tengo\s+accesibles/gi
       <<Lit("qué"), WS1, Lit("bases"), WS1, Lit("tengo"), WS1, Lit("accesibles")>>,
       \* /listar\s+bases/gi
       <<Lit("listar"), WS1, Lit("bases")>>>>],
    [intent |-> "list_records", patterns |-> <<
       \* /mostrarme\s+todos\s+los\s+registros\s+(?:en|en\s+la)\s+tabla\s+\w+/gi
       <<Lit("mostrarme"), WS1, Lit("todos"), WS1, Lit("los"), WS1, Lit("registros"), WS1, Alt(<<<<Lit("en")>>, <<Lit("en"), WS1, Lit("la")>>>>), WS1, Lit("tabla"), WS1, W1>>,
       \* /listar\s+registros\s+(?:de|en)\s+\w+/gi
       <<Lit("listar"), WS1, Lit("registros"), WS1, Alt(<<<<Lit("de")>>, <<Lit("en")>>>>), WS1, W1>>,
       \* /ver\s+registros\s+de\s+\w+/gi
       <<Lit("ver"), WS1, Lit("registros"), WS1, Lit("de"), WS1, W1>>,
       \* /obtener\s+registros\s+de\s+\w+/gi
       <<Lit("obtener"), WS1, Lit("registros"), WS1, Lit("de"), WS1, W1>>>>],
    [intent |-> "create_record", patterns |-> <<
       \* /crear\s+(?:una\s+)?nueva\s+tarea/gi
       <<Lit("crear"), WS1, Opt(<<Lit("una"), WS1>>), Lit("nueva"), WS1, Lit("tarea")>>,
       \* /crear\s+registro\s+nuevo/gi
       <<Lit("crear"), WS1, Lit("registro"), WS1, Lit("nuevo")>>,
       \* /agregar\s+registro/gi
       <<Lit("agregar"), WS1, Lit("registro")>>,
       \* /insertar\s+registro/gi
       <<Lit("insertar"), WS1, Lit("registro")>>,
       \* /añadir\s+nuevo\s+registro/gi
       <<Lit("añadir"), WS1, Lit("nuevo"), WS1, Lit("registro")>>>>],
    [intent |-> "update_record", patterns |-> <<
       \* /actualizar\s+(?:el\s+)?estado\s+de\s+(?:la\s+)?tarea/gi
       <<Lit("actualizar"), WS1, Opt(<<Lit("el"), WS1>>), Lit("estado"), WS1, Lit("de"), WS1, Opt(<<Lit("la"), WS1>>), Lit("tarea")>>,
       \* /cambiar\s+estado\s+de/gi
       <<Lit("cambiar"), WS1, Lit("estado"), WS1, Lit("de")>>,
       \* /modificar\s+registro/gi
       <<Lit("modificar"), WS1, Lit("registro")>>,
       \* /editar\s+registro/gi
       <<Lit("editar"), WS1, Lit("registro")>>,
       \* /actualizar\s+registro/gi
       <<Lit("actualizar"), WS1, Lit("registro")>>>>],
    [intent |-> "delete_record", patterns |-> <<
       \* /eliminar\s+(?:todos\s+los\s+)?registros\s+donde\s+el\s+estado\s+sea/gi
       <<Lit("eliminar"), WS1, Opt(<<Lit("todos"), WS1, Lit("los"), WS1>>), Lit("registros"), WS1, Lit("donde"), WS1, Lit("el"), WS1, Lit("estado"), WS1, Lit("sea")>>,
       \* /borrar\s+registros\s+con\s+estado/gi
       <<Lit("borrar"), WS1, Lit("registros"), WS1, Lit("con"), WS1, Lit("estado")>>,
       \* /suprimir\s+registros/gi
       <<Lit("suprimir"), WS1, Lit("registros")>>,
       \* /eliminar\s+registros/gi
       <<Lit("eliminar"), WS1, Lit("registros")>>>>],
    [intent |-> "search_records", patterns |-> <<
       \* /buscar\s+registros\s+donde\s+\w+\s+sea\s+igual\s+a/gi
       <<Lit("buscar"), WS1, Lit("registros"), WS1, Lit("donde"), WS1, W1, WS1, Lit("sea"), WS1, Lit("igual"), WS1, Lit("a")>>,
       \* /filtrar\s+registros\s+por/gi
       <<Lit("filtrar"), WS1, Lit("registros"), WS1, Lit("por")>>,
       \* /encontrar\s+registros\s+con/gi
       <<Lit("encontrar"), WS1, Lit("registros"), WS1, Lit("con")>>,
       \* /buscar\s+registros\s+que/gi
       <<Lit("buscar"), WS1, Lit("registros"), WS1, Lit("que")>>>>],
    [intent |-> "list_tables", patterns |-> <<
       \* /qué\s+tablas\s+hay\s+en\s+mi\s+base/gi
       <<Lit("qué"), WS1, Lit("tablas"), WS1, Lit("hay"), WS1, Lit("en"), WS1, Lit("mi"), WS1, Lit("base")>>,
       \* /mostrar\s+tablas\s+de\s+la\s+base/gi
       <<Lit("mostrar"), WS1, Lit("tablas"), WS1, Lit("de"), WS1, Lit("la"), WS1, Lit("base")>>,
       \* /listar\s+tablas/gi
       <<Lit("listar"), WS1, Lit("tablas")>>,
       \* /qué\s+tablas\s+tengo/gi
       <<Lit("qué"), WS1, Lit("tablas"), WS1, Lit("tengo")>>>>],
    [intent |-> "create_webhook", patterns |-> <<
       \* /crear\s+un\s+webhook\s+para\s+mi\s+tabla/gi
       <<Lit("crear"), WS1, Lit("un"), WS1, Lit("webhook"), WS1, Lit("para"), WS1, Lit("mi"), WS1, Lit("tabla")>>,
       \* /crear\s+webhook/gi
       <<Lit("crear"), WS1, Lit("webhook")>>,
       \* /configurar\s+webhook/gi
       <<Lit("configurar"), WS1, Lit("webhook")>>,
       \* /establecer\s+webhook/gi
       <<Lit("establecer"), WS1, Lit("webhook")>>>>],
    [intent |-> "list_webhooks", patterns |-> <<
       \* /listar\s+todos\s+los\s+webhooks\s+activos/gi
       <<Lit("listar"), WS1, Lit("todos"), WS1, Lit("los"), WS1, Lit("webhooks"), WS1, Lit("activos")>>,
       \* /mostrar\s+webhooks/gi
       <<Lit("mostrar"), WS1, Lit("webhooks")>>,
       \* /ver\s+webhooks/gi
       <<Lit("ver"), WS1, Lit("webhooks")>>,
       \* /qué\s+webhooks\s+tengo/gi
       <<Lit("qué"), WS1, Lit("webhooks"), WS1, Lit("tengo")>>>>],
    [intent |-> "delete_webhook", patterns |-> <<
       \* /eliminar\s+webhook\s+\w+/gi
       <<Lit("eliminar"), WS1, Lit("webhook"), WS1, W1>>,
       \* /borrar\s+webhook/gi
       <<Lit("borrar"), WS1, Lit("webhook")>>,
       \* /remover\s+webhook/gi
       <<Lit("remover"), WS1, Lit("webhook")>>>>],
    [intent |-> "get_base_schema", patterns |-> <<
       \* /mostrarme\s+el\s+esquema\s+completo\s+para\s+(?:esta|la)\s+base/gi
       <<Lit("mostrarme"), WS1, Lit("el"), WS1, Lit("esquema"), WS1, Lit("completo"), WS1, Lit("para"), WS1, Alt(<<<<Lit("esta")>>, <<Lit("la")>>>>), WS1, Lit("base")>>,
       \* /obtener\s+esquema\s+de\s+base/gi
       <<Lit("obtener"), WS1, Lit("esquema"), WS1, Lit("de"), WS1, Lit("base")>>,
       \* /describir\s+base/gi
       <<Lit("describir"), WS1, Lit("base")>>>>],
    [intent |-> "describe_table", patterns |-> <<
       \* /describir\s+la\s+tabla\s+\w+\s+con\s+todos\s+los\s+detalles\s+de\s+campo/gi
       <<Lit("describir"), WS1, Lit("la"), WS1, Lit("tabla"), WS1, W1, WS1, Lit("con"), WS1, Lit("todos"), WS1, Lit("los"), WS1, Lit("detalles"), WS1, Lit("de"), WS1, Lit("campo")>>,
       \* /mostrar\s+estructura\s+de\s+tabla/gi
       <<Lit("mostrar"), WS1, Lit("estructura"), WS1, Lit("de"), WS1, Lit("tabla")>>,
       \* /ver\s+campos\s+de\s+tabla/gi
       <<Lit("ver"), WS1, Lit("campos"), WS1, Lit("de"), WS1, Lit("tabla")>>>>],
    [intent |-> "create_table", patterns |-> <<
       \* /crear\s+una\s+nueva\s+tabla\s+llamada\s+\w+/gi
       <<Lit("crear"), WS1, Lit("una"), WS1, Lit("nueva"), WS1, Lit("tabla"), WS1, Lit("llamada"), WS1, W1>>,
       \* /crear\s+tabla\s+nueva/gi
       <<Lit("crear"), WS1, Lit("tabla"), WS1, Lit("nueva")>>,
       \* /añadir\s+tabla/gi
       <<Lit("añadir"), WS1, Lit("tabla")>>>>],
    [intent |-> "create_field", patterns |-> <<
       \* /agregar\s+un\s+campo\s+de\s+\w+\s+a\s+la\s+tabla/gi
       <<Lit("agregar"), WS1, Lit("un"), WS1, Lit("campo"), WS1, Lit("de"), WS1, W1, WS1, Lit("a"), WS1, Lit("la"), WS1, Lit("tabla")>>,
       \* /añadir\s+campo/gi
       <<Lit("añadir"), WS1, Lit("campo")>>,
       \* /crear\s+campo/gi
       <<Lit("crear"), WS1, Lit("campo")>>>>],
    [intent |-> "list_field_types", patterns |-> <<
       \* /qué\s+tipos\s+de\s+campos\s+están\s+disponibles\s+en\s+airtable/gi
       <<Lit("qué"), WS1, Lit("tipos"), WS1, Lit("de"), WS1, Lit("campos"), WS1, Lit("están"), WS1, Lit("disponibles"), WS1, Lit("en"), WS1, Lit("airtable")>>,
       \* /tipos\s+de\s+campos\s+disponibles/gi
       <<Lit("tipos"), WS1, Lit("de"), WS1, Lit("campos"), WS1, Lit("disponibles")>>,
       \* /campos\s+disponibles/gi
       <<Lit("campos"), WS1, Lit("disponibles")>>>>],
    [intent |-> "batch_create_records", patterns |-> <<
       \* /crear\s+\d+\s+registros\s+nuevos\s+a\s+la\s+vez/gi
       <<Lit("crear"), WS1, D1, WS1, Lit("registros"), WS1, Lit("nuevos"), WS1, Lit("a"), WS1, Lit("la"), WS1, Lit("vez")>>,
       \* /crear\s+múltiples\s+registros/gi
       <<Lit("crear"), WS1, Lit("múltiples"), WS1, Lit("registros")>>,
       \* /añadir\s+varios\s+registros/gi
       <<Lit("añadir"), WS1, Lit("varios"), WS1, Lit("registros")>>>>],
    [intent |-> "batch_update_records", patterns |-> <<
       \* /actualizar\s+múltiples\s+registros/gi
       <<Lit("actualizar"), WS1, Lit("múltiples"), WS1, Lit("registros")>>,
       \* /modificar\s+varios\s+registros/gi
       <<Lit("modificar"), WS1, Lit("varios"), WS1, Lit("registros")>>,
       \* /cambiar\s+varios\s+registros/gi
       <<Lit("cambiar"), WS1, Lit("varios"), WS1, Lit("registros")>>>>],
    [intent |-> "batch_delete_records", patterns |-> <<
       \* /eliminar\s+estos\s+\d+\s+registros\s+en\s+una\s+operación/gi
       <<Lit("eliminar"), WS1, Lit("estos"), WS1, D1, WS1, Lit("registros"), WS1, Lit("en"), WS1, Lit("una"), WS1, Lit("operación")>>,
       \* /borrar\s+múltiples\s+registros/gi
       <<Lit("borrar"), WS1, Lit("múltiples"), WS1, Lit("registros")>>,
       \* /eliminar\s+varios\s+registros/gi
       <<Lit("eliminar"), WS1, Lit("varios"), WS1, Lit("registros")>>>>],
    [intent |-> "upload_attachment", patterns |-> <<
       \* /adjuntar\s+esta\s+url\s+de\s+imagen/gi
       <<Lit("adjuntar"), WS1, Lit("esta"), WS1, Lit("url"), WS1, Lit("de"), WS1, Lit("imagen")>>,
       \* /subir\s+archivo/gi
       <<Lit("subir"), WS1, Lit("archivo")>>,
       \* /adjuntar\s+archivo/gi
       <<Lit("adjuntar"), WS1, Lit("archivo")>>,
       \* /añadir\s+adjunto/gi
       <<Lit("añadir"), WS1, Lit("adjunto")>>>>],
    [intent |-> "list_collaborators", patterns |-> <<
       \* /quiénes\s+son\s+los\s+colaboradores\s+en\s+esta\s+base/gi
       <<Lit("quiénes"), WS1, Lit("son"), WS1, Lit("los"), WS1, Lit("colaboradores"), WS1, Lit("en"), WS1, Lit("esta"), WS1, Lit("base")>>,
       \* /mostrar\s+colaboradores/gi
       <<Lit("mostrar"), WS1, Lit("colaboradores")>>,
       \* /ver\s+colaboradores/gi
       <<Lit("ver"), WS1, Lit("colaboradores")>>>>],
    [intent |-> "list_shares", patterns |-> <<
       \* /mostrarme\s+todas\s+las\s+vistas\s+compartidas\s+en\s+esta\s+base/gi
       <<Lit("mostrarme"), WS1, Lit("todas"), WS1, Lit("las"), WS1, Lit("vistas"), WS1, Lit("compartidas"), WS1, Lit("en"), WS1, Lit("esta"), WS1, Lit("base")>>,
       \* /ver\s+vistas\s+compartidas/gi
       <<Lit("ver"), WS1, Lit("vistas"), WS1, Lit("compartidas")>>,
       \* /mostrar\s+compartidos/gi
       <<Lit("mostrar"), WS1, Lit("compartidos")>>>>],
    [intent |-> "analyze_data", patterns |-> <<
       \* /analizar\s+datos\s+de/gi
       <<Lit("analizar"), WS1, Lit("datos"), WS1, Lit("de")>>,
       \* /analizar\s+tabla/gi
       <<Lit("analizar"), WS1, Lit("tabla")>>,
       \* /estudiar\s+datos/gi
       <<Lit("estudiar"), WS1, Lit("datos")>>>>]
  >>

\* the patterns of a table in the order in which mapIntent's two loops visit them: an
\* intent's patterns in order, the intents in the order of the table
Flatten(table) ==
  LET index == UNION {{<<i, j>> : j \in 1..Len(table[i].patterns)} : i \in 1..Len(table)}
      before(i) == Cardinality({t \in index : t[1] < i})
      at(p) == CHOOSE t \in index : before(t[1]) + t[2] = p
      entry(t) == [intent |-> table[t[1]].intent, pat |-> table[t[1]].patterns[t[2]]]
  IN [p \in 1..Cardinality(index) |-> entry(at(p))]

Patterns == Flatten(intentPatterns)
NumPatterns == Len(Patterns)

\* what a stateless matcher answers: does the i-flagged pattern occur in s at all
Occurs(pat, s) == Exec(pat, toLowerCase(s), 0).end # -1

\* RegExp.prototype.test of a pattern with the flags g and i, whose lastIndex is li:
\* the search starts at li; a match leaves lastIndex at its end, a failure at 0
RegExpTest(pat, s, li) ==
  LET r == IF li > Len(s) THEN NoMatch ELSE Exec(pat, toLowerCase(s), li)
  IN [ok |-> r.end # -1, lastIndex |-> IF r.end # -1 THEN r.end ELSE 0]

(***************************************************************************)
(* The requests explored                                                   *)
(***************************************************************************)
\* the query argument of a request
Queries ==
  {"", "Ver registros  de tablas", "actualizar registro rec1 en tareas", "asdkj qwoe"}

\* the queries of the scenarios: a listing that names its table, a table referred to
\* as "esa tabla" with each display verb, the deletion of a webhook
ListingQuery == "mostrarme todos los registros en la tabla Proyectos"
AnaphoraQueries == {"mostrar esa tabla", "ver esa tabla", "obtener esa tabla"}
WebhookQuery == "eliminar webhook abc123"
ScenarioQueries == {ListingQuery, WebhookQuery} \cup AnaphoraQueries

\* queries that bear a date, in each way of writing one, and one that bears none
DateQueries ==
  {"crear tarea para mañana", "tareas de hoy y de mañana", "ver tareas de la próxima semana",
   "ver tareas en 3 días", "ver tareas del 2024-05-10", "ver tareas del 5/3/2024",
   "ver tareas"}

\* the query the handler hands to processQuery: query.trim()
HandlerQuery(query) == trim(query)

\* the handler's guard: !query || typeof query !== 'string'
HandlerRejects(query) == query = ""

\* The stages whose outcome depends on the query alone are computed once for each
\* query of the exploration and looked up afterwards.
AllQueries == Queries \cup ScenarioQueries \cup DateQueries
NormalizedQueryOf == [query \in AllQueries |-> normalizeQuery(HandlerQuery(query))]
NormalizedQueries == {NormalizedQueryOf[query] : query \in AllQueries}
\* the length of the longest string of a set
MaxLen(strings) == CHOOSE n \in {Len(x) : x \in strings} : \A x \in strings : Len(x) <= n
\* RegExpTest of each pattern on each query from each lastIndex
TestsOf(patterns, queries, maxLen) ==
  [nq \in queries |->
     [p \in 1..Len(patterns) |-> [li \in 0..maxLen |-> RegExpTest(patterns[p].pat, nq, li)]]]
TestOf == TestsOf(Patterns, NormalizedQueries, MaxLen(NormalizedQueries))

\* IntentMapper.mapIntent from "If no match, try with context" on
mapIntentFallback(query, context) ==
  IF /\ includes(query, "esa tabla") /\ context.currentTable # null
     /\ (includes(query, "mostrar") \/ includes(query, "ver") \/ includes(query, "obtener"))
  THEN "list_records"
  ELSE IF /\ includes(query, "esa tabla") /\ context.currentTable # null
          /\ (includes(query, "crear") \/ includes(query, "añadir"))
  THEN "create_record"
  ELSE IF /\ includes(query, "ese registro") /\ context.currentRecordId # null
          /\ (includes(query, "actualizar") \/ includes(query, "cambiar")
                \/ includes(query, "modificar"))
  THEN "update_record"
  ELSE IF /\ includes(query, "ese registro") /\ context.currentRecordId # null
          /\ (includes(query, "eliminar") \/ includes(query, "borrar"))
  THEN "delete_record"
  ELSE IF \E k \in {"crear", "nuevo", "añadir", "insertar", "agregar"} : includes(query, k)
  THEN (IF includes(query, "tabla") THEN "create_table"
        ELSE IF includes(query, "campo") THEN "create_field"
        ELSE "create_record")
  ELSE IF \E k \in {"mostrar", "listar", "ver", "obtener"} : includes(query, k)
  THEN (IF includes(query, "base") THEN "list_bases"
        ELSE IF includes(query, "tabla") \/ includes(query, "tablas") THEN "list_tables"
        ELSE IF includes(query, "webhook") THEN "list_webhooks"
        ELSE "list_records")
  ELSE IF \E k \in {"actualizar", "modificar", "cambiar", "editar"} : includes(query, k)
  THEN "update_record"
  ELSE IF \E k \in {"eliminar", "borrar", "suprimir", "remover"} : includes(query, k)
  THEN (IF includes(query, "webhook") THEN "delete_webhook" ELSE "delete_record")
  ELSE "unknown"

\* the first of a non-empty set of pattern numbers
First(hits) == CHOOSE p \in hits : \A h \in hits : p <= h

\* mapIntent's loops over the patterns, given the outcome t[p] of each pattern's test: the
\* loops stop at the first pattern whose test succeeds, so the patterns after it keep
\* their lastIndex; the patterns tested in vain are left with lastIndex 0
DirectMatch(patterns, t, hits, li) ==
  [intent |-> patterns[First(hits)].intent,
   lastIndex |-> [p \in DOMAIN li |-> IF p <= First(hits) THEN t[p].lastIndex ELSE li[p]]]

MapIntentFrom(patterns, t, li, query, context) ==
  IF \E p \in DOMAIN li : t[p].ok
  THEN DirectMatch(patterns, t, {p \in DOMAIN li : t[p].ok}, li)
  ELSE [intent |-> mapIntentFallback(query, context), lastIndex |-> [p \in DOMAIN li |-> 0]]

\* IntentMapper.mapIntent: the intent, and the lastIndex of every pattern afterwards.
\* li[p] is the lastIndex of Patterns[p] before the call.
MapIntentWith(patterns, tests, query, li, context) ==
  MapIntentFrom(patterns, [p \in DOMAIN li |-> tests[query][p][li[p]]], li, query, context)

mapIntent(query, li, context) == MapIntentWith(Patterns, TestOf, query, li, context)

\* IntentMapper.requiresTable
requiresTable(intent) ==
  intent \in {"list_records", "create_record", "update_record", "delete_record",
              "search_records", "describe_table", "create_field", "create_webhook",
              "batch_create_records", "batch_update_records", "batch_delete_records",
              "upload_attachment"}

\* IntentMapper.requiresRecordId
requiresRecordId(intent) ==
  intent \in {"update_record", "delete_record", "get_record", "upload_attachment"}

(***************************************************************************)
(* Objects with optional properties: functions from the names of the       *)
(* properties that are set                                                 *)
(***************************************************************************)
EmptyObject == <<>>
Has(o, key) == key \in DOMAIN o
With(o, key, val) == [n \in DOMAIN o \cup {key} |-> IF n = key THEN val ELSE o[n]]

RECURSIVE MatchAllFrom(_, _, _)
\* String.prototype.matchAll: the matches (none of them empty) from position i on
MatchAllFrom(s, pat, i) ==
  LET r == Exec(pat, s, i)
  IN IF r.end = -1 THEN <<>> ELSE <<r>> \o MatchAllFrom(s, pat, r.end)

DigitValue ==
  [c \in Digits |->
     CASE c = "0" -> 0 [] c = "1" -> 1 [] c = "2" -> 2 [] c = "3" -> 3 [] c = "4" -> 4
       [] c = "5" -> 5 [] c = "6" -> 6 [] c = "7" -> 7 [] c = "8" -> 8 [] c = "9" -> 9]

RECURSIVE parseIntFrom(_, _, _)
parseIntFrom(s, i, acc) ==
  IF i > Len(s) THEN acc ELSE parseIntFrom(s, i + 1, 10 * acc + DigitValue[Ch(s, i)])

\* parseInt(s, 10) of a string of digits
parseInt(s) == parseIntFrom(s, 1, 0)

(***************************************************************************)
(* NaturalLanguageProcessor.extractEntities                                *)
(***************************************************************************)
Letters == LowerLetters \cup UpperLetters
\* [a-zA-ZáéíóúñÑ_] and [a-zA-Z0-9áéíóúñÑ_\s]
NameStart == Letters \cup Accented \cup {"_"}
NameRest == Letters \cup Digits \cup Accented \cup {"_"} \cup Whitespace
AlphaNum == Letters \cup Digits
\* (?:\s|$|\.|,)
Terminator == Alt(<<<<Cls(Whitespace, 1, 1, TRUE)>>, <<Eos>>, <<Lit(".")>>, <<Lit(",")>>>>)

\* /(?:en|para|tabla)\s+([a-zA-ZáéíóúñÑ_][a-zA-Z0-9áéíóúñÑ_\s]*?)(?:\s|$|\.|,)/
TableRe ==
  <<Alt(<<<<Lit("en")>>, <<Lit("para")>>, <<Lit("tabla")>>>>), WS1,
    Cap(<<Cls(NameStart, 1, 1, TRUE), Cls(NameRest, 0, -1, FALSE)>>), Terminator>>
\* /(?:id|registro|record)\s*[:#]?\s*([a-zA-Z0-9]+)/
RecordIdRe ==
  <<Alt(<<<<Lit("id")>>, <<Lit("registro")>>, <<Lit("record")>>>>), WS0,
    Cls({":", "#"}, 0, 1, TRUE), WS0, Cap(<<Cls(AlphaNum, 1, -1, TRUE)>>)>>
\* /prioridad\s+(alta|media|baja)/
PriorityRe ==
  <<Lit("prioridad"), WS1, Cap(<<Alt(<<<<Lit("alta")>>, <<Lit("media")>>, <<Lit("baja")>>>>)>>)>>
\* /(?:estado|status)\s*(?:sea\s+|=|igual\s+a\s+)?([a-zA-ZáéíóúñÑ\s]+?)(?:\s|$|\.|,)/
StatusRe ==
  <<Alt(<<<<Lit("estado")>>, <<Lit("status")>>>>), WS0,
    Opt(<<Alt(<<<<Lit("sea"), WS1>>, <<Lit("=")>>, <<Lit("igual"), WS1, Lit("a"), WS1>>>>)>>),
    Cap(<<Cls(Letters \cup Accented \cup Whitespace, 1, -1, FALSE)>>), Terminator>>
\* /https?:\/\/[^\s]+/
UrlRe == <<Lit("http"), Cls({"s"}, 0, 1, TRUE), Lit("://"), NCls(Whitespace, 1, -1, TRUE)>>
\* /(?:webhook\s+)?([a-zA-Z0-9]+)/
WebhookIdRe == <<Opt(<<Lit("webhook"), WS1>>), Cap(<<Cls(AlphaNum, 1, -1, TRUE)>>)>>
\* /(\d+)\s+(?:registros?|registro|records?|record)/
CountRe ==
  <<Cap(<<D1>>), WS1,
    Alt(<<<<Lit("registro"), Cls({"s"}, 0, 1, TRUE)>>, <<Lit("registro")>>,
          <<Lit("record"), Cls({"s"}, 0, 1, TRUE)>>, <<Lit("record")>>>>)>>
\* /campo\s+([a-zA-ZáéíóúñÑ_][a-zA-Z0-9áéíóúñÑ_\s]*?)/g
FieldRe == <<Lit("campo"), WS1, Cap(<<Cls(NameStart, 1, 1, TRUE), Cls(NameRest, 0, -1, FALSE)>>)>>

\* if (cond) o[key] = val
SetIf(cond, o, key, val) == IF cond THEN With(o, key, val) ELSE o

\* the text of a match
Matched(s, m) == SubSeq(s, m.start + 1, m.end)

PriorityName(priority) ==
  IF priority = "alta" THEN "Alta" ELSE IF priority = "media" THEN "Media" ELSE "Baja"

\* a faulty extraction: the table and the record of the text only, never the context's
extractEntitiesFromText(query, intent, context) ==
  LET tableMatch == match(query, TableRe)
      recordIdMatch == match(query, RecordIdRe)
  IN SetIf(recordIdMatch.end # -1,
           SetIf(tableMatch.end # -1, EmptyObject, "tableName", trim(tableMatch.cap)),
           "recordId", recordIdMatch.cap)

extractEntities(query, intent, context) ==
  LET tableMatch == match(query, TableRe)
      e1 == SetIf(tableMatch.end # -1 \/ context.currentTable # null, EmptyObject, "tableName",
                  IF tableMatch.end # -1 THEN trim(tableMatch.cap) ELSE context.currentTable)
      recordIdMatch == match(query, RecordIdRe)
      e2 == SetIf(recordIdMatch.end # -1, e1, "recordId", recordIdMatch.cap)
      priorityMatch == match(query, PriorityRe)
      e3 == SetIf(priorityMatch.end # -1, e2, "priority",
                  PriorityName(toLowerCase(priorityMatch.cap)))
      statusMatch == match(query, StatusRe)
      e4 == SetIf(statusMatch.end # -1, e3, "status", trim(statusMatch.cap))
      webhookUrlMatch == match(query, UrlRe)
      e5 == SetIf(intent = "create_webhook" /\ webhookUrlMatch.end # -1, e4, "webhookUrl",
                  Matched(query, webhookUrlMatch))
      webhookIdMatch == match(query, WebhookIdRe)
      e6 == SetIf(intent = "delete_webhook" /\ webhookIdMatch.end # -1, e5, "webhookId",
                  webhookIdMatch.cap)
      attachmentMatch == match(query, UrlRe)
      e7 == SetIf(intent = "upload_attachment" /\ attachmentMatch.end # -1, e6,
                  "attachmentUrl", Matched(query, attachmentMatch))
      countMatch == match(query, CountRe)
      e8 == SetIf(countMatch.end # -1, e7, "count", parseInt(countMatch.cap))
      fieldMatches == MatchAllFrom(query, FieldRe, 0)
      e9 == SetIf(Len(fieldMatches) > 0, e8, "fieldNames",
                  [j \in 1..Len(fieldMatches) |-> trim(fieldMatches[j].cap)])
      e10 == SetIf(includes(query, "esa tabla") /\ context.currentTable # null, e9,
                   "tableName", context.currentTable)
  IN SetIf(includes(query, "ese registro") /\ context.currentRecordId # null, e10,
           "recordId", context.currentRecordId)

(***************************************************************************)
(* NaturalLanguageProcessor.processRelativeValues.  The clock is not       *)
(* modelled: a date is written as its distance in days from the day of the *)
(* call.                                                                   *)
(***************************************************************************)
processRelativeValues(entities, originalQuery) ==
  IF includes(originalQuery, "mañana") THEN With(entities, "dateReference", "today+1")
  ELSE IF includes(originalQuery, "hoy") THEN With(entities, "dateReference", "today")
  ELSE IF includes(originalQuery, "ayer") THEN With(entities, "dateReference", "today-1")
  ELSE entities

(***************************************************************************)
(* NaturalLanguageProcessor.buildQueryParameters                           *)
(***************************************************************************)
\* the truthiness of a property of entities: a string is truthy unless empty, a number
\* unless zero, an array always
TruthyEntity(entities, key) ==
  /\ Has(entities, key)
  /\ CASE key = "count" -> entities[key] # 0
       [] key = "fieldNames" -> TRUE
       [] OTHER -> entities[key] # ""

Min(a, b) == IF a <= b THEN a ELSE b

\* if (cond) o.fields = { ...o.fields, [name]: val }
SetFieldIf(cond, o, name, val) ==
  IF cond
  THEN With(o, "fields", With(IF Has(o, "fields") THEN o.fields ELSE EmptyObject, name, val))
  ELSE o

\* the fields of a record to create: Priority, Status and Due Date, those that are known
CreateFields(entities) ==
  SetIf(TruthyEntity(entities, "dateReference"),
        SetIf(TruthyEntity(entities, "status"),
              SetIf(TruthyEntity(entities, "priority"), EmptyObject, "Priority", entities.priority),
              "Status", entities.status),
        "Due Date", entities.dateReference)

\* the parameters proper to the intent, added to the common ones
IntentParameters(intent, entities, params) ==
  CASE intent \in {"list_records", "search_records"} ->
         \* entities.maxRecords is never set by extractEntities
         SetIf(TruthyEntity(entities, "count"),
               SetIf(TruthyEntity(entities, "status"), params, "filterByFormula",
                     "{Status} = '" \o entities.status \o "'"),
               "maxRecords", Min(entities.count, 100))
    [] intent = "create_record" -> With(params, "fields", CreateFields(entities))
    [] intent = "update_record" ->
         SetFieldIf(TruthyEntity(entities, "priority"),
                    SetIf(TruthyEntity(entities, "status"), params, "fields",
                          With(EmptyObject, "Status", entities.status)),
                    "Priority", entities.priority)
    [] intent = "create_webhook" ->
         SetIf(TruthyEntity(entities, "webhookUrl"), params, "webhookConfig",
               With(EmptyObject, "notificationUrl", entities.webhookUrl))
    [] intent = "batch_create_records" ->
         SetIf(TruthyEntity(entities, "count"), params, "maxRecords", Min(entities.count, 10))
    [] intent = "upload_attachment" ->
         SetIf(TruthyEntity(entities, "attachmentUrl"), params, "attachmentData",
               With(EmptyObject, "url", entities.attachmentUrl))
    [] OTHER -> params

buildQueryParameters(intent, entities, context) ==
  IntentParameters(intent, entities,
    SetIf(TruthyEntity(entities, "recordId"),
          SetIf(TruthyEntity(entities, "baseId"),
                SetIf(TruthyEntity(entities, "tableName"), EmptyObject, "table", entities.tableName),
                "baseId", entities.baseId),
          "recordId", entities.recordId))

(***************************************************************************)
(* ValidationEngine                                                        *)
(***************************************************************************)
\* ValidationEngine.validationRules: per intent, the rules in order.  A rule's
\* predicate is named by its kind: "string" (a non-empty string), "object" (an
\* object with a property), "url" (an object with the property named), "batch"
\* (a number in 1..10).
validationRules ==
  [intent \in {"list_records", "create_record", "update_record", "delete_record",
               "create_webhook", "upload_attachment", "batch_create_records"} |->
     CASE intent = "list_records" ->
            <<[parameter |-> "table", type |-> "required", validation |-> "string"]>>
       [] intent = "create_record" ->
            <<[parameter |-> "table", type |-> "required", validation |-> "string"],
              [parameter |-> "fields", type |-> "required", validation |-> "object"]>>
       [] intent = "update_record" ->
            <<[parameter |-> "table", type |-> "required", validation |-> "string"],
              [parameter |-> "recordId", type |-> "required", validation |-> "string"],
              [parameter |-> "fields", type |-> "required", validation |-> "object"]>>
       [] intent = "delete_record" ->
            <<[parameter |-> "table", type |-> "required", validation |-> "string"],
              [parameter |-> "recordId", type |-> "required", validation |-> "string"]>>
       [] intent = "create_webhook" ->
            <<[parameter |-> "table", type |-> "required", validation |-> "string"],
              [parameter |-> "webhookConfig", type |-> "required", validation |-> "url"]>>
       [] intent = "upload_attachment" ->
            <<[parameter |-> "table", type |-> "required", validation |-> "string"],
              [parameter |-> "recordId", type |-> "required", validation |-> "string"],
              [parameter |-> "attachmentData", type |-> "required", validation |-> "url"]>>
       [] intent = "batch_create_records" ->
            <<[parameter |-> "table", type |-> "required", validation |-> "string"],
              [parameter |-> "maxRecords", type |-> "conditional", validation |-> "batch"]>>]

\* the truthiness of ValidationEngine.getParameterValue(parameters, paramName): the
\* property of parameters, else that of parameters.fields, of parameters.webhookConfig,
\* of parameters.attachmentData.  Of the values these hold, a string is truthy unless
\* empty, a number unless zero, an object always.
TruthyValue(parameters, paramName) ==
  \/ /\ Has(parameters, paramName)
     /\ CASE paramName \in {"table", "recordId", "baseId", "filterByFormula"} ->
               parameters[paramName] # ""
          [] paramName = "maxRecords" -> parameters[paramName] # 0
          [] OTHER -> TRUE
  \/ \E o \in {"fields", "webhookConfig", "attachmentData"} :
        /\ Has(parameters, o)
        /\ Has(parameters[o], paramName)
        /\ parameters[o][paramName] # ""

\* the predicate of the one conditional rule: typeof value === 'number' && value > 0 && value <= 10
BatchSizeOk(parameters) == parameters.maxRecords > 0 /\ parameters.maxRecords <= 10

\* the validation function of a rule, applied to a parameter that is present:
\* value.trim().length > 0 of a string, Object.keys(value).length > 0 of an object,
\* value.notificationUrl or value.url of a configuration, the batch size
RuleHolds(rule, parameters) ==
  LET value == parameters[rule.parameter]
  IN CASE rule.validation = "string" -> trim(value) # ""
       [] rule.validation = "object" -> DOMAIN value # {}
       [] rule.validation = "url" ->
            LET key == IF rule.parameter = "webhookConfig" THEN "notificationUrl" ELSE "url"
            IN Has(value, key) /\ value[key] # ""
       [] rule.validation = "batch" -> BatchSizeOk(parameters)

\* /^https?:\/\/[^\s/$.?#].[^\s]*$/i
ValidUrlRe ==
  <<Lit("http"), Cls({"s"}, 0, 1, TRUE), Lit("://"),
    NCls(Whitespace \cup {"/", "$", ".", "?", "#"}, 1, 1, TRUE), NCls({"\n"}, 1, 1, TRUE),
    NCls(Whitespace, 0, -1, TRUE), Eos>>
\* /^[a-zA-ZáéíóúñÑ][a-zA-Z0-9áéíóúñÑ\s_-]*$/
ValidTableRe ==
  <<Cls(Letters \cup Accented, 1, 1, TRUE),
    Cls(Letters \cup Digits \cup Accented \cup Whitespace \cup {"_", "-"}, 0, -1, TRUE), Eos>>
\* /^[a-zA-Z0-9]+$/
ValidRecordIdRe == <<Cls(AlphaNum, 1, -1, TRUE), Eos>>

\* RegExp.prototype.test of a pattern that starts with ^ and has no g flag
TestAnchored(pat, s) == MatchHere(pat, s, 0, "").end # -1

isValidUrl(url) == TestAnchored(ValidUrlRe, toLowerCase(url))

Error(field, code) == [field |-> field, code |-> code, severity |-> "error"]

RECURSIVE RuleErrors(_, _, _)
\* the loop "Validar reglas específicas" of validate, from the i-th rule on
RuleErrors(rules, i, parameters) ==
  IF i > Len(rules) THEN <<>>
  ELSE LET rule == rules[i]
           value == TruthyValue(parameters, rule.parameter)
           here == IF rule.type = "required" /\ ~value
                   THEN <<Error(rule.parameter, "MISSING_" \o toUpperCase(rule.parameter))>>
                   ELSE IF rule.type = "conditional" /\ value /\ ~BatchSizeOk(parameters)
                        THEN <<Error(rule.parameter, "INVALID_" \o toUpperCase(rule.parameter))>>
                        ELSE <<>>
       IN here \o RuleErrors(rules, i + 1, parameters)

\* ValidationEngine.performAdditionalValidations
performAdditionalValidations(intent, parameters, context) ==
  LET e1 == IF /\ intent = "create_webhook" /\ Has(parameters, "webhookConfig")
               /\ ~isValidUrl(parameters.webhookConfig.notificationUrl)
            THEN <<Error("webhookConfig.notificationUrl", "INVALID_WEBHOOK_URL")>> ELSE <<>>
      e2 == IF /\ intent = "upload_attachment" /\ Has(parameters, "attachmentData")
               /\ ~isValidUrl(parameters.attachmentData.url)
            THEN <<Error("attachmentData.url", "INVALID_ATTACHMENT_URL")>> ELSE <<>>
      w == IF /\ includes(intent, "batch_") /\ Has(parameters, "maxRecords")
              /\ parameters.maxRecords # 0 /\ parameters.maxRecords > 10
           THEN <<[field |-> "maxRecords", code |-> "LARGE_BATCH_SIZE"]>> ELSE <<>>
      e3 == IF Has(parameters, "table") /\ Len(parameters.table) > 50
            THEN <<Error("table", "TABLE_NAME_TOO_LONG")>> ELSE <<>>
      e4 == IF Has(parameters, "table") /\ ~TestAnchored(ValidTableRe, parameters.table)
            THEN <<Error("table", "INVALID_TABLE_NAME")>> ELSE <<>>
      e5 == IF Has(parameters, "recordId") /\ ~TestAnchored(ValidRecordIdRe, parameters.recordId)
            THEN <<Error("recordId", "INVALID_RECORD_ID")>> ELSE <<>>
      errors == e1 \o e2 \o e3 \o e4 \o e5
  IN [isValid |-> Len(errors) = 0, errors |-> errors, warnings |-> w, suggestions |-> <<>>]

\* a faulty validate: a result with a warning is not valid
validateStrict(intent, parameters, context) ==
  LET rules == IF intent \in DOMAIN validationRules THEN validationRules[intent] ELSE <<>>
      additionalValidation == performAdditionalValidations(intent, parameters, context)
      errors == RuleErrors(rules, 1, parameters) \o additionalValidation.errors
  IN [isValid |-> Len(errors) = 0 /\ Len(additionalValidation.warnings) = 0,
      errors |-> errors,
      warnings |-> additionalValidation.warnings,
      suggestions |-> additionalValidation.suggestions]

\* ValidationEngine.validate
validate(intent, parameters, context) ==
  LET rules == IF intent \in DOMAIN validationRules THEN validationRules[intent] ELSE <<>>
      additionalValidation == performAdditionalValidations(intent, parameters, context)
      errors == RuleErrors(rules, 1, parameters) \o additionalValidation.errors
  IN [isValid |-> Len(errors) = 0,
      errors |-> errors,
      warnings |-> additionalValidation.warnings,
      suggestions |-> additionalValidation.suggestions]

(***************************************************************************)
(* Numbers.  A JavaScript number that is not an integer is an IEEE-754       *)
(* double; the confidences are sums of such numbers, and a sum of doubles   *)
(* is rounded.  A double d with 0 <= d < 4 is written here as three limbs   *)
(* <<a, b, c>>, d = (a * 2^48 + b * 2^24 + c) * 2^-56, and the arithmetic   *)
(* rounds to 53 significant bits, ties to even, as the hardware does.       *)
(***************************************************************************)
LimbBase == 2^24

\* the doubles nearest to the decimal literals of the source
Zero == <<0, 0, 0>>
One == <<256, 0, 0>>
F01 == <<25, 10066329, 10066330>>
F02 == <<51, 3355443, 3355444>>
F03 == <<76, 13421772, 13421772>>
F04 == <<102, 6710886, 6710888>>
F05 == <<128, 0, 0>>
F07 == <<179, 3355443, 3355440>>
F08 == <<204, 13421772, 13421776>>
F09 == <<230, 6710886, 6710888>>

Carry(t) ==
  LET k2 == t[2] + (t[3] \div LimbBase)
  IN <<t[1] + (k2 \div LimbBase), k2 % LimbBase, t[3] % LimbBase>>

\* the number of low bits a value with top limb a has beyond 53 significant bits
ExtraBits(a) ==
  IF a >= 512 THEN 5 ELSE IF a >= 256 THEN 4 ELSE IF a >= 128 THEN 3
  ELSE IF a >= 64 THEN 2 ELSE IF a >= 32 THEN 1 ELSE 0

\* round to nearest, ties to even
RoundDouble(t) ==
  LET m == 2^ExtraBits(t[1])
      r == t[3] % m
      down == <<t[1], t[2], t[3] - r>>
      odd == (t[3] \div m) % 2 = 1
      up == 2 * r > m \/ (2 * r = m /\ odd)
  IN IF m = 1 THEN t
     ELSE IF up THEN Carry(<<down[1], down[2], down[3] + m>>) ELSE down

\* x + y of two doubles
FAdd(x, y) == RoundDouble(Carry(<<x[1] + y[1], x[2] + y[2], x[3] + y[3]>>))
\* n * x of an integer (array length) and a double
FMulInt(n, x) == RoundDouble(Carry(<<n * x[1], n * x[2], n * x[3]>>))
\* x > y
FGt(x, y) ==
  \/ x[1] > y[1]
  \/ x[1] = y[1] /\ x[2] > y[2]
  \/ x[1] = y[1] /\ x[2] = y[2] /\ x[3] > y[3]
\* Math.min
FMin(x, y) == IF FGt(x, y) THEN y ELSE x

(***************************************************************************)
(* SemanticAnalyzer                                                        *)
(***************************************************************************)
actionWords ==
  {"crear", "mostrar", "listar", "ver", "obtener", "buscar", "filtrar",
   "actualizar", "modificar", "cambiar", "editar", "eliminar", "borrar",
   "agregar", "añadir", "insertar", "subir", "adjuntar"}

contextWords ==
  {"tabla", "registro", "base", "campo", "webhook", "archivo", "imagen",
   "proyecto", "tarea", "estado", "prioridad", "fecha", "vencimiento"}

LowerAccented == {"á","é","í","ó","ú","ñ","Ñ"}

entityPatterns ==
  << \* /\b[A-Z][a-záéíóúñÑ\s]+\b/g
     <<Wb, Cls(UpperLetters, 1, 1, TRUE),
       Cls(LowerLetters \cup LowerAccented \cup Whitespace, 1, -1, TRUE), Wb>>,
     \* /\b[A-Z]{2,}\b/g
     <<Wb, Cls(UpperLetters, 2, -1, TRUE), Wb>>,
     \* /\b[a-záéíóúñÑ_][a-zA-Z0-9áéíóúñÑ_]*\b/g
     <<Wb, Cls(LowerLetters \cup LowerAccented \cup {"_"}, 1, 1, TRUE),
       Cls(Letters \cup Digits \cup LowerAccented \cup {"_"}, 0, -1, TRUE), Wb>> >>

commonWords ==
  {"una", "un", "el", "la", "de", "en", "con", "para", "por", "sobre",
   "esta", "este", "esa", "ese", "todas", "todos", "que", "donde"}

isCommonWord(word) == word \in commonWords

RECURSIVE SplitFrom(_, _, _)
\* String.prototype.split(/\s+/): the pieces of s between the runs of whitespace
SplitFrom(s, seps, j) ==
  LET from == IF j = 1 THEN 0 ELSE seps[j - 1].end
  IN IF j > Len(seps) THEN <<SubSeq(s, from + 1, Len(s))>>
     ELSE <<SubSeq(s, from + 1, seps[j].start)>> \o SplitFrom(s, seps, j + 1)

split(s) == SplitFrom(s, MatchAllFrom(s, <<WS1>>, 0), 1)

\* Array.prototype.filter(...).length for a membership test
CountIn(words, set) == Cardinality({j \in 1..Len(words) : words[j] \in set})

\* SemanticAnalyzer.extractNamedEntities: the distinct matches of the three patterns
\* that are longer than two characters and are not common words
extractNamedEntities(query) ==
  LET found(p) == MatchAllFrom(query, entityPatterns[p], 0)
      text(r) == SubSeq(query, r.start + 1, r.end)
  IN {text(found(p)[j]) : <<p, j>> \in
        {t \in (1..Len(entityPatterns)) \X (1..Len(query)) :
            /\ t[2] <= Len(found(t[1]))
            /\ Len(text(found(t[1])[t[2]])) > 2
            /\ ~isCommonWord(toLowerCase(text(found(t[1])[t[2]])))}}

\* SemanticAnalyzer.calculateConfidence
semanticConfidence(actions, entities, context) ==
  LET c0 == F03
      c1 == FAdd(c0, FMin(FMulInt(actions, F02), F04))
      c2 == FAdd(c1, FMin(FMulInt(entities, F01), F03))
      c3 == FAdd(c2, FMin(FMulInt(context, F01), F02))
  IN FMin(c3, One)

\* SemanticAnalyzer.analyze; sentiment and urgency are read by nothing and are left out
analyze(query, context) ==
  LET words == split(toLowerCase(query))
      actions == CountIn(words, actionWords)
      contextEntities == CountIn(words, contextWords)
      entities == extractNamedEntities(query)
  IN [confidence |-> semanticConfidence(actions, Cardinality(entities), contextEntities),
      entities |-> entities,
      actions |-> actions,
      context |-> contextEntities]

(***************************************************************************)
(* DateProcessor.  The clock is not modelled: a date computed from the day  *)
(* of the call is written as its distance from that day, "today", "today+7",*)
(* "today-1month"; a date the text gives is written as the text gives it.   *)
(***************************************************************************)
\* DateProcessor.relativeTimeWords, in the order of Object.entries
relativeTimeWords ==
  <<[word |-> "hoy", type |-> "future", unit |-> "days", value |-> 0],
    [word |-> "mañana", type |-> "future", unit |-> "days", value |-> 1],
    [word |-> "ayer", type |-> "past", unit |-> "days", value |-> 1],
    [word |-> "próxima semana", type |-> "future", unit |-> "weeks", value |-> 1],
    [word |-> "semana pasada", type |-> "past", unit |-> "weeks", value |-> 1],
    [word |-> "próximo mes", type |-> "future", unit |-> "months", value |-> 1],
    [word |-> "mes pasado", type |-> "past", unit |-> "months", value |-> 1]>>

RECURSIVE DecimalOf(_)
\* the decimal digits of a natural number
DecimalOf(n) ==
  LET digit == CHOOSE c \in Digits : DigitValue[c] = n % 10
  IN IF n < 10 THEN digit ELSE DecimalOf(n \div 10) \o digit

\* the date a number of units after (before, if negative) the day of the call
DateFromToday(n, suffix) ==
  IF n = 0 THEN "today"
  ELSE IF n > 0 THEN "today+" \o DecimalOf(n) \o suffix
  ELSE "today-" \o DecimalOf(0 - n) \o suffix

\* DateProcessor.calculateRelativeDate
calculateRelativeDate(config) ==
  LET signed == IF config.type = "future" THEN config.value ELSE 0 - config.value
  IN CASE config.unit = "days" -> DateFromToday(signed, "")
       [] config.unit = "weeks" -> DateFromToday(signed * 7, "")
       [] config.unit = "months" -> DateFromToday(signed, "month")
       [] config.unit = "years" -> DateFromToday(signed, "year")

\* DateProcessor.calculateDateFromNow
calculateDateFromNow(days, type) ==
  DateFromToday(IF type = "future" THEN days ELSE 0 - days, "")

\* /en\s+(\d+)\s+días?/i and /hace\s+(\d+)\s+días?/i
FutureDaysRe == <<Lit("en"), WS1, Cap(<<D1>>), WS1, Lit("día"), Cls({"s"}, 0, 1, TRUE)>>
PastDaysRe == <<Lit("hace"), WS1, Cap(<<D1>>), WS1, Lit("día"), Cls({"s"}, 0, 1, TRUE)>>
\* /(\d{4}-\d{2}-\d{2})/i, /(\d{1,2}\/\d{1,2}\/\d{4})/i and /(\d{1,2}-\d{1,2}-\d{4})/i
IsoDateRe ==
  <<Cap(<<Cls(Digits, 4, 4, TRUE), Lit("-"), Cls(Digits, 2, 2, TRUE), Lit("-"),
          Cls(Digits, 2, 2, TRUE)>>)>>
SlashDateRe ==
  <<Cap(<<Cls(Digits, 1, 2, TRUE), Lit("/"), Cls(Digits, 1, 2, TRUE), Lit("/"),
          Cls(Digits, 4, 4, TRUE)>>)>>
DashDateRe ==
  <<Cap(<<Cls(Digits, 1, 2, TRUE), Lit("-"), Cls(Digits, 1, 2, TRUE), Lit("-"),
          Cls(Digits, 4, 4, TRUE)>>)>>

\* String.prototype.padStart(2, '0')
padStart(s) == IF Len(s) < 2 THEN "0" \o s ELSE s

\* DateProcessor.formatDateFromSlash and formatDateFromDash: the text has matched the
\* pattern, so it has three parts
formatDate(dateStr, separator) ==
  LET parts == SplitFrom(dateStr, MatchAllFrom(dateStr, <<Lit(separator)>>, 0), 1)
  IN parts[3] \o "-" \o padStart(parts[2]) \o "-" \o padStart(parts[1])

\* DateProcessor.isValidDate of a text YYYY-MM-DD: new Date(dateStr) is a date when
\* the month is one of the twelve and the day is 1 to 31
isValidDate(dateStr) ==
  /\ parseInt(SubSeq(dateStr, 6, 7)) \in 1..12
  /\ parseInt(SubSeq(dateStr, 9, 10)) \in 1..31

RECURSIVE RelativeWord(_, _)
\* the first entry of relativeTimeWords, from the j-th on, whose word the text
\* includes; 0 if there is none
RelativeWord(text, j) ==
  IF j > Len(relativeTimeWords) THEN 0
  ELSE IF includes(text, relativeTimeWords[j].word) THEN j
  ELSE RelativeWord(text, j + 1)

\* DateProcessor.processDateReference
processDateReference(text) ==
  LET word == RelativeWord(text, 1)
      futureDaysMatch == match(toLowerCase(text), FutureDaysRe)
      pastDaysMatch == match(toLowerCase(text), PastDaysRe)
      isoDateMatch == match(text, IsoDateRe)
      slashDateMatch == match(text, SlashDateRe)
      dashDateMatch == match(text, DashDateRe)
  IN IF word # 0
     THEN [originalText |-> relativeTimeWords[word].word,
           processedDate |-> calculateRelativeDate(relativeTimeWords[word]),
           confidence |-> F09, format |-> "relative"]
     ELSE IF futureDaysMatch.end # -1
     THEN [originalText |-> Matched(text, futureDaysMatch),
           processedDate |-> calculateDateFromNow(parseInt(futureDaysMatch.cap), "future"),
           confidence |-> F08, format |-> "relative"]
     ELSE IF pastDaysMatch.end # -1
     THEN [originalText |-> Matched(text, pastDaysMatch),
           processedDate |-> calculateDateFromNow(parseInt(pastDaysMatch.cap), "past"),
           confidence |-> F08, format |-> "relative"]
     ELSE IF isoDateMatch.end # -1 /\ isValidDate(isoDateMatch.cap)
     THEN [originalText |-> isoDateMatch.cap, processedDate |-> isoDateMatch.cap,
           confidence |-> One, format |-> "absolute"]
     ELSE IF /\ slashDateMatch.end # -1
             /\ isValidDate(formatDate(slashDateMatch.cap, "/"))
     THEN [originalText |-> slashDateMatch.cap,
           processedDate |-> formatDate(slashDateMatch.cap, "/"),
           confidence |-> F09, format |-> "absolute"]
     ELSE IF /\ dashDateMatch.end # -1
             /\ isValidDate(formatDate(dashDateMatch.cap, "-"))
     THEN [originalText |-> dashDateMatch.cap,
           processedDate |-> formatDate(dashDateMatch.cap, "-"),
           confidence |-> F09, format |-> "absolute"]
     ELSE [originalText |-> text, processedDate |-> null, confidence |-> Zero,
           format |-> "invalid"]

(***************************************************************************)
(* NaturalLanguageProcessor: clarifications, confidence, the fault result  *)
(***************************************************************************)
Clarification(type, question) == [question |-> question, type |-> type, required |-> TRUE]

\* the questions of the clarifications
TableQuestion == "¿En qué tabla quieres realizar esta operación?"
RecordIdQuestion == "¿Cuál es el ID del registro que quieres actualizar?"
WebhookUrlQuestion == "¿Cuál es la URL del webhook que quieres crear?"
AttachmentUrlQuestion == "¿Cuál es la URL del archivo que quieres adjuntar?"
RephraseQuestion ==
  "Lo siento, no pude entender tu consulta. ¿Podrías reformularla de manera más específica?"

\* a faulty determineClarifications: it asks for the table and for nothing else
determineClarificationsTableOnly(intent, entities, validation) ==
  IF requiresTable(intent) /\ ~TruthyEntity(entities, "tableName")
  THEN <<Clarification("missing_table", TableQuestion)>> ELSE <<>>

determineClarifications(intent, entities, validation) ==
  LET c1 == IF requiresTable(intent) /\ ~TruthyEntity(entities, "tableName")
            THEN <<Clarification("missing_table", TableQuestion)>> ELSE <<>>
      c2 == IF requiresRecordId(intent) /\ ~TruthyEntity(entities, "recordId")
            THEN <<Clarification("missing_value", RecordIdQuestion)>> ELSE <<>>
      c3 == IF intent = "create_webhook" /\ ~TruthyEntity(entities, "webhookUrl")
            THEN <<Clarification("missing_value", WebhookUrlQuestion)>> ELSE <<>>
      c4 == IF intent = "upload_attachment" /\ ~TruthyEntity(entities, "attachmentUrl")
            THEN <<Clarification("missing_value", AttachmentUrlQuestion)>> ELSE <<>>
  IN c1 \o c2 \o c3 \o c4

\* a faulty increment: x += y whatever the condition
AddAlways(cond, x, y) == FAdd(x, y)

\* if (cond) x += y
AddIf(cond, x, y) == IF cond THEN FAdd(x, y) ELSE x

\* a faulty calculateConfidence: the sum is returned as it is, without Math.min
calculateConfidenceUnclamped(intent, entities, validation, semanticAnalysis) ==
  LET c1 == AddIf(intent # "unknown", F05, F02)
      c2 == FAdd(c1, FMin(FMulInt(Cardinality(DOMAIN entities), F01), F03))
      c3 == AddIf(validation.isValid, c2, F02)
  IN AddIf(FGt(semanticAnalysis.confidence, F07), c3, F01)

calculateConfidence(intent, entities, validation, semanticAnalysis) ==
  LET c0 == F05
      c1 == AddIf(intent # "unknown", c0, F02)
      entityCount == Cardinality(DOMAIN entities)
      c2 == FAdd(c1, FMin(FMulInt(entityCount, F01), F03))
      c3 == AddIf(validation.isValid, c2, F02)
      c4 == AddIf(FGt(semanticAnalysis.confidence, F07), c3, F01)
  IN FMin(c4, One)

\* a faulty catch block: it reports the failure and asks nothing
FaultResultWithoutClarification ==
  [intent |-> "unknown",
   entities |-> EmptyObject,
   parameters |-> EmptyObject,
   confidence |-> Zero,
   requiresClarification |-> FALSE,
   clarifications |-> <<>>]

\* the value the catch block of processQuery returns
FaultResult ==
  [intent |-> "unknown",
   entities |-> EmptyObject,
   parameters |-> EmptyObject,
   confidence |-> Zero,
   requiresClarification |-> TRUE,
   clarifications |-> <<Clarification("ambiguous_reference", RephraseQuestion)>>]

(***************************************************************************)
(* The state.  One NaturalLanguageProcessor serves every request of the     *)
(* process_natural_language tool; it owns one IntentMapper, whose patterns  *)
(* carry a lastIndex each, and one ContextHandler.                          *)
(***************************************************************************)
VARIABLES
  contexts,           \* ContextHandler.contexts: session id -> reference to its context, 0 if none
  heap,               \* the context objects ever created; a reference is an index
  maxContextQueries,  \* ContextHandler.maxContextQueries
  lastIndex,          \* IntentMapper: the lastIndex of each pattern of the table
  calls,              \* the requests being served, each with its position and its locals
  started,            \* how many requests and ContextHandler calls have been made
  thrown,             \* did the last direct call of a ContextHandler method throw
  returned,           \* the ContextReference the last call of resolveReference returned,
                      \* as a sequence of one element; empty before the first call
  log,                \* history: per context object, the turns its updateContext calls pushed
  soloIndex           \* history: per session, the lastIndex of a mapper that sees this
                      \* session's queries only

vars ==
  <<contexts, heap, maxContextQueries, lastIndex, calls, started, thrown, returned, log,
    soloIndex>>

\* the bounds of the exploration
MaxCalls == 2
MaxCap == 2
MaxOps == 5

Sessions == {"default", "s1"}
Slots == {"a", "b"}
\* the turns handed to updateContext when it is called directly
Turns ==
  {[query |-> "ver registros en tareas", intent |-> "list_records",
    entities |-> [tableName |-> "tareas"]],
   [query |-> "actualizar registro rec1", intent |-> "update_record",
    entities |-> [recordId |-> "rec1"]],
   [query |-> "asdkj", intent |-> "unknown", entities |-> EmptyObject]}

(***************************************************************************)
(* ContextHandler                                                          *)
(***************************************************************************)
\* constructor(maxContextQueries: number = 10)
DefaultMaxContextQueries == 10

createNewContext(sessionId, userId) ==
  [sessionId |-> sessionId,
   userId |-> userId,
   currentBaseId |-> null,
   currentTable |-> null,
   currentRecordId |-> null,
   previousQueries |-> <<>>,
   mentionedEntities |-> [tables |-> <<>>, fields |-> <<>>, records |-> <<>>],
   preferences |-> [language |-> "es", dateFormat |-> "YYYY-MM-DD", responseFormat |-> "natural"]]

\* Array.prototype.slice(start); -0 is 0
slice(arr, start) ==
  LET from == IF start < 0
              THEN (IF Len(arr) + start > 0 THEN Len(arr) + start ELSE 0)
              ELSE Min(start, Len(arr))
  IN SubSeq(arr, from + 1, Len(arr))

\* Array.prototype.includes
ArrayIncludes(arr, x) == \E j \in 1..Len(arr) : arr[j] = x

\* a faulty push: arr.push(x) whether or not the array holds x
PushAlways(arr, x) == Append(arr, x)

\* a faulty push: the array is replaced by one that holds the new element only
PushIfNewReplacing(arr, x) == <<x>>

\* if (!arr.includes(x)) arr.push(x)
PushIfNew(arr, x) == IF ArrayIncludes(arr, x) THEN arr ELSE Append(arr, x)

\* the entry updateContext pushes; the processor passes neither timestamp nor result
PreviousQuery(queryData) == [query |-> queryData.query, intent |-> queryData.intent]

\* a faulty limit: it keeps the oldest entries
LimitHistoryKeepOldest(previousQueries, max) ==
  IF Len(previousQueries) > max THEN SubSeq(previousQueries, 1, max) ELSE previousQueries

\* the history after the push and "Limit history size"
LimitHistory(previousQueries, max) ==
  IF Len(previousQueries) > max THEN slice(previousQueries, 0 - max) ELSE previousQueries

\* updateContext, "Add new query to history" and "Limit history size"
PushQuery(context, queryData, max) ==
  [context EXCEPT !.previousQueries = LimitHistory(Append(@, PreviousQuery(queryData)), max)]

\* a faulty note: the table becomes the current one without being recorded
NoteTableUnrecorded(context, entities) ==
  IF TruthyEntity(entities, "tableName")
  THEN [context EXCEPT !.currentTable = entities.tableName]
  ELSE context

\* updateContext, the tableName of the turn
NoteTable(context, entities) ==
  IF TruthyEntity(entities, "tableName")
  THEN [context EXCEPT !.mentionedEntities.tables = PushIfNew(@, entities.tableName),
                       !.currentTable = entities.tableName]
  ELSE context

\* updateContext, the recordId of the turn
NoteRecord(context, entities) ==
  IF TruthyEntity(entities, "recordId")
  THEN [context EXCEPT !.currentRecordId = entities.recordId,
                       !.mentionedEntities.records = PushIfNew(@, entities.recordId)]
  ELSE context

\* updateContext, the baseId of the turn
NoteBase(context, entities) ==
  IF TruthyEntity(entities, "baseId")
  THEN [context EXCEPT !.currentBaseId = entities.baseId]
  ELSE context

\* updateContext, the fieldName of the turn
NoteField(context, entities) ==
  IF TruthyEntity(entities, "fieldName")
  THEN [context EXCEPT !.mentionedEntities.fields = PushIfNew(@, entities.fieldName)]
  ELSE context

\* ContextHandler.updateContext, on the context object it has found
UpdatedContext(context, queryData, max) ==
  NoteField(NoteBase(NoteRecord(NoteTable(PushQuery(context, queryData, max),
                                          queryData.entities),
                                queryData.entities),
                     queryData.entities),
            queryData.entities)

\* a faulty getContext: it makes a new context whether or not the session has one
getContextAlwaysNew(sessionId, userId) ==
  [contexts |-> [contexts EXCEPT ![sessionId] = Len(heap) + 1],
   heap |-> Append(heap, createNewContext(sessionId, userId)),
   log |-> Append(log, <<>>),
   context |-> Len(heap) + 1]

\* ContextHandler.getContext: the store and the heap afterwards, and the reference returned
getContext(sessionId, userId) ==
  IF contexts[sessionId] # 0
  THEN [contexts |-> contexts, heap |-> heap, log |-> log, context |-> contexts[sessionId]]
  ELSE [contexts |-> [contexts EXCEPT ![sessionId] = Len(heap) + 1],
        heap |-> Append(heap, createNewContext(sessionId, userId)),
        log |-> Append(log, <<>>),
        context |-> Len(heap) + 1]

\* a faulty updateContext: it returns quietly when the session has no context
updateContextQuietly(sessionId, queryData) ==
  LET ref == contexts[sessionId]
  IN IF ref = 0
     THEN [threw |-> FALSE, heap |-> heap, log |-> log]
     ELSE [threw |-> FALSE,
           heap |-> [heap EXCEPT ![ref] = UpdatedContext(@, queryData, maxContextQueries)],
           log |-> [log EXCEPT ![ref] = Append(@, PreviousQuery(queryData))]]

\* ContextHandler.updateContext: it throws when the session has no context
updateContext(sessionId, queryData) ==
  LET ref == contexts[sessionId]
  IN IF ref = 0
     THEN [threw |-> TRUE, heap |-> heap, log |-> log]
     ELSE [threw |-> FALSE,
           heap |-> [heap EXCEPT ![ref] = UpdatedContext(@, queryData, maxContextQueries)],
           log |-> [log EXCEPT ![ref] = Append(@, PreviousQuery(queryData))]]

\* a faulty clearContext: this.contexts.clear()
clearContextOfAll(sessionId) == [s \in Sessions |-> 0]

\* ContextHandler.clearContext
clearContext(sessionId) == [contexts EXCEPT ![sessionId] = 0]

\* if (context.currentTable), if (context.currentRecordId): neither null nor empty
Truthy(value) == value # null /\ value # ""

\* the ContextReference of a reference that is not resolved
Unresolved(type) ==
  [referenceType |-> type, reference |-> "", resolved |-> FALSE, confidence |-> Zero]

\* ContextHandler.resolveReference
resolveReference(sessionId, reference, type) ==
  LET context == heap[contexts[sessionId]]
      lowerReference == toLowerCase(reference)
      mentionedTables == context.mentionedEntities.tables
      mentionedRecords == context.mentionedEntities.records
  IN IF contexts[sessionId] = 0 THEN Unresolved(type)
     ELSE IF /\ type = "table"
             /\ includes(lowerReference, "esa tabla") \/ includes(lowerReference, "la tabla")
             /\ Truthy(context.currentTable)
     THEN [referenceType |-> "table", reference |-> context.currentTable,
           resolved |-> TRUE, confidence |-> F09]
     ELSE IF type = "table" /\ Len(mentionedTables) > 0
     THEN [referenceType |-> "table", reference |-> mentionedTables[Len(mentionedTables)],
           resolved |-> TRUE, alternatives |-> slice(mentionedTables, 0 - 3),
           confidence |-> F07]
     ELSE IF /\ type = "record"
             /\ includes(lowerReference, "ese registro") \/ includes(lowerReference, "el registro")
             /\ Truthy(context.currentRecordId)
     THEN [referenceType |-> "record", reference |-> context.currentRecordId,
           resolved |-> TRUE, confidence |-> F09]
     ELSE IF type = "record" /\ Len(mentionedRecords) > 0
     THEN [referenceType |-> "record", reference |-> mentionedRecords[Len(mentionedRecords)],
           resolved |-> TRUE, alternatives |-> slice(mentionedRecords, 0 - 3),
           confidence |-> F07]
     ELSE IF type = "base" /\ Truthy(context.currentBaseId)
     THEN [referenceType |-> "base", reference |-> context.currentBaseId,
           resolved |-> TRUE, confidence |-> F09]
     ELSE Unresolved(type)

(***************************************************************************)
(* The process_natural_language tool: handleNaturalLanguageQuery and        *)
(* NaturalLanguageProcessor.processQuery.  processQuery awaits every stage, *)
(* so the requests being served interleave between stages.  A request's     *)
(* position names the stage it runs next.                                   *)
(***************************************************************************)
ZeroIndex == [p \in 1..NumPatterns |-> 0]


IdleCall ==
  [pc |-> "idle", query |-> "", sessionId |-> "", normalizedQuery |-> "", context |-> 0,
   semanticAnalysis |-> null, intent |-> null, entities |-> EmptyObject,
   parameters |-> EmptyObject, validation |-> null, result |-> null, faulted |-> FALSE,
   executed |-> FALSE, response |-> null]

InTry == {"mapIntent", "extractEntities", "updateContext"}
Free == {"idle", "rejected", "responded"}

\* a faulty flag: clarifications.length > 1
RequiresClarificationOffByOne(clarifications) == Len(clarifications) > 1

\* requiresClarification = clarifications.length > 0
RequiresClarification(clarifications) == Len(clarifications) > 0

\* SemanticAnalyzer.analyze does not read the context: computed once per query
SemanticAnalysisOf == [nq \in NormalizedQueries |-> analyze(nq, null)]

\* a request arrives: the handler's guard, then processQuery up to its first stages,
\* normalizeQuery and contextHandler.getContext
ReceiveQuery(c, query, sessionId) ==
  /\ calls[c].pc \in Free
  /\ \A d \in Slots : calls[d].pc \in Free /\ d # c => c = "a"
  /\ started < MaxCalls
  /\ started' = started + 1
  /\ IF HandlerRejects(query)
     THEN /\ calls' = [calls EXCEPT ![c] = [IdleCall EXCEPT !.pc = "rejected"]]
          /\ UNCHANGED <<contexts, heap, log>>
     ELSE LET g == getContext(sessionId, "anonymous")
          IN /\ contexts' = g.contexts
             /\ heap' = g.heap
             /\ log' = g.log
             /\ calls' = [calls EXCEPT ![c] =
                            [IdleCall EXCEPT !.pc = "mapIntent",
                                             !.query = HandlerQuery(query),
                                             !.sessionId = sessionId,
                                             !.normalizedQuery = NormalizedQueryOf[query],
                                             !.context = g.context]]
  /\ UNCHANGED <<maxContextQueries, lastIndex, thrown, returned, soloIndex>>

\* stages 3 and 4: semanticAnalyzer.analyze and intentMapper.mapIntent
MapIntentStep(c) ==
  LET call == calls[c]
      context == heap[call.context]
      m == mapIntent(call.normalizedQuery, lastIndex, context)
  IN /\ call.pc = "mapIntent"
     /\ lastIndex' = m.lastIndex
     /\ soloIndex' = [soloIndex EXCEPT ![call.sessionId] =
                        mapIntent(call.normalizedQuery, @, context).lastIndex]
     /\ calls' = [calls EXCEPT ![c].pc = "extractEntities",
                               ![c].semanticAnalysis = SemanticAnalysisOf[call.normalizedQuery],
                               ![c].intent = m.intent]
     /\ UNCHANGED <<contexts, heap, maxContextQueries, started, thrown, returned, log>>

\* stages 5 to 8: extractEntities, processRelativeValues, buildQueryParameters and
\* validationEngine.validate
ExtractEntitiesStep(c) ==
  LET call == calls[c]
      context == heap[call.context]
      entities == extractEntities(call.normalizedQuery, call.intent, context)
      processedEntities == processRelativeValues(entities, call.query)
      parameters == buildQueryParameters(call.intent, processedEntities, context)
  IN /\ call.pc = "extractEntities"
     /\ calls' = [calls EXCEPT ![c].pc = "updateContext",
                               ![c].entities = processedEntities,
                               ![c].parameters = parameters,
                               ![c].validation = validate(call.intent, parameters, context)]
     /\ UNCHANGED <<contexts, heap, maxContextQueries, lastIndex, started, thrown, returned, log,
                    soloIndex>>

\* stages 9 to 11 and the return: determineClarifications, calculateConfidence and
\* contextHandler.updateContext, whose exception the catch block turns into FaultResult
UpdateContextStep(c) ==
  LET call == calls[c]
      clarifications == determineClarifications(call.intent, call.entities, call.validation)
      confidence == calculateConfidence(call.intent, call.entities, call.validation,
                                        call.semanticAnalysis)
      u == updateContext(call.sessionId,
                         [intent |-> call.intent, entities |-> call.entities,
                          parameters |-> call.parameters, query |-> call.query,
                          confidence |-> confidence])
  IN /\ call.pc = "updateContext"
     /\ heap' = u.heap
     /\ log' = u.log
     /\ calls' = [calls EXCEPT
          ![c].pc = "returned",
          ![c].faulted = u.threw,
          ![c].result =
             IF u.threw THEN FaultResult
             ELSE [intent |-> call.intent,
                   entities |-> call.entities,
                   parameters |-> call.parameters,
                   confidence |-> confidence,
                   requiresClarification |-> RequiresClarification(clarifications),
                   clarifications |-> clarifications]]
     /\ UNCHANGED <<contexts, maxContextQueries, lastIndex, started, thrown, returned, soloIndex>>

\* the stage a request runs next raises an exception: the catch block of processQuery
StageFails(c) ==
  /\ calls[c].pc \in InTry
  /\ calls' = [calls EXCEPT ![c].pc = "returned", ![c].faulted = TRUE, ![c].result = FaultResult]
  /\ UNCHANGED <<contexts, heap, maxContextQueries, lastIndex, started, thrown, returned, log, soloIndex>>

\* executeCorrespondingTool: it throws for the intent unknown
ToolThrows(processedQuery) == processedQuery.intent = "unknown"

\* the handler after processQuery has returned: the clarification response, or the
\* tool executor and the response made of its result or of its exception
Respond(c) ==
  LET call == calls[c]
      processedQuery == call.result
  IN /\ call.pc = "returned"
     /\ calls' = [calls EXCEPT ![c] = [IdleCall EXCEPT
          !.pc = "responded",
          !.executed = ~processedQuery.requiresClarification,
          !.response =
             IF processedQuery.requiresClarification
             THEN [success |-> FALSE, intent |-> processedQuery.intent,
                   confidence |-> processedQuery.confidence, fallbackUsed |-> FALSE]
             ELSE IF ToolThrows(processedQuery)
                  THEN [success |-> FALSE, intent |-> "unknown", confidence |-> Zero,
                        fallbackUsed |-> TRUE]
                  ELSE [success |-> TRUE, intent |-> processedQuery.intent,
                        confidence |-> processedQuery.confidence, fallbackUsed |-> FALSE]]]
     /\ UNCHANGED <<contexts, heap, maxContextQueries, lastIndex, started, thrown, returned, log,
                    soloIndex>>

Init ==
  /\ contexts = [s \in Sessions |-> 0]
  /\ heap = <<>>
  /\ maxContextQueries = DefaultMaxContextQueries
  /\ lastIndex = ZeroIndex
  /\ calls = [c \in Slots |-> IdleCall]
  /\ started = 0
  /\ thrown = FALSE
  /\ returned = <<>>
  /\ log = <<>>
  /\ soloIndex = [s \in Sessions |-> ZeroIndex]

Next ==
  \/ \E c \in Slots, query \in Queries, sessionId \in Sessions : ReceiveQuery(c, query, sessionId)
  \/ \E c \in Slots : MapIntentStep(c)
  \/ \E c \in Slots : ExtractEntitiesStep(c)
  \/ \E c \in Slots : UpdateContextStep(c)
  \/ \E c \in Slots : StageFails(c)
  \/ \E c \in Slots : Respond(c)

Spec == Init /\ [][Next]_vars

(***************************************************************************)
(* The processor constructed with a configuration: the registered one, whose *)
(* maxContextQueries is 10, or one with a smaller maximum                     *)
(***************************************************************************)
\* the NLPConfig objects given to the constructor, by their maxContextQueries
Configs == {[maxContextQueries |-> n] : n \in {1, 10}}

\* NaturalLanguageProcessor.constructor: this.contextHandler = new ContextHandler(),
\* whose parameter maxContextQueries takes its default
ConstructedMaxContextQueries(config) == DefaultMaxContextQueries

InitConfigured ==
  /\ contexts = [s \in Sessions |-> 0]
  /\ heap = <<>>
  /\ \E config \in Configs : maxContextQueries = ConstructedMaxContextQueries(config)
  /\ lastIndex = ZeroIndex
  /\ calls = [c \in Slots |-> IdleCall]
  /\ started = 0
  /\ thrown = FALSE
  /\ returned = <<>>
  /\ log = <<>>
  /\ soloIndex = [s \in Sessions |-> ZeroIndex]

SpecConfigured == InitConfigured /\ [][Next]_vars

(***************************************************************************)
(* The ContextHandler on its own: its methods called in any order, for a    *)
(* handler built with any cap from 0 to MaxCap                              *)
(***************************************************************************)
GetContext(sessionId) ==
  LET g == getContext(sessionId, "anonymous")
  IN /\ started < MaxOps
     /\ started' = started + 1
     /\ contexts' = g.contexts
     /\ heap' = g.heap
     /\ log' = g.log
     /\ thrown' = FALSE
     /\ UNCHANGED <<maxContextQueries, lastIndex, calls, returned, soloIndex>>

UpdateContext(sessionId, queryData) ==
  LET u == updateContext(sessionId, queryData)
  IN /\ started < MaxOps
     /\ started' = started + 1
     /\ heap' = u.heap
     /\ log' = u.log
     /\ thrown' = u.threw
     /\ UNCHANGED <<contexts, maxContextQueries, lastIndex, calls, returned, soloIndex>>

ClearContext(sessionId) ==
  /\ started < MaxOps
  /\ started' = started + 1
  /\ contexts' = clearContext(sessionId)
  /\ thrown' = FALSE
  /\ UNCHANGED <<heap, maxContextQueries, lastIndex, calls, returned, log, soloIndex>>

InitCH ==
  /\ contexts = [s \in Sessions |-> 0]
  /\ heap = <<>>
  /\ maxContextQueries \in 0..MaxCap
  /\ lastIndex = ZeroIndex
  /\ calls = [c \in Slots |-> IdleCall]
  /\ started = 0
  /\ thrown = FALSE
  /\ returned = <<>>
  /\ log = <<>>
  /\ soloIndex = [s \in Sessions |-> ZeroIndex]

NextCH ==
  \/ \E sessionId \in Sessions : GetContext(sessionId)
  \/ \E sessionId \in Sessions, queryData \in Turns : UpdateContext(sessionId, queryData)
  \/ \E sessionId \in Sessions : ClearContext(sessionId)

SpecCH == InitCH /\ [][NextCH]_vars

(***************************************************************************)
(* The ContextHandler remembering what the turns mention: turns that name   *)
(* tables, records and fields, and references resolved against them         *)
(***************************************************************************)
\* the turns handed to updateContext, each with a query of its own
MentionTurns ==
  {[query |-> "ver registros en tareas", intent |-> "list_records",
    entities |-> [tableName |-> "tareas"]],
   [query |-> "buscar en clientes por estado", intent |-> "search_records",
    entities |-> [tableName |-> "clientes", fieldName |-> "estado"]],
   [query |-> "ver registro rec1", intent |-> "get_record",
    entities |-> [recordId |-> "rec1"]],
   [query |-> "actualizar prioridad de rec2", intent |-> "update_record",
    entities |-> [recordId |-> "rec2", fieldName |-> "prioridad"]]}

\* the reference texts and the types handed to resolveReference
References == {"Esa Tabla", "ese registro", "la anterior"}
ReferenceTypes == {"table", "record"}

ResolveReference(sessionId, reference, type) ==
  /\ started < MaxOps
  /\ started' = started + 1
  /\ returned' = <<resolveReference(sessionId, reference, type)>>
  /\ thrown' = FALSE
  /\ UNCHANGED <<contexts, heap, maxContextQueries, lastIndex, calls, log, soloIndex>>

NextMentions ==
  \/ \E sessionId \in Sessions : GetContext(sessionId)
  \/ \E sessionId \in Sessions, queryData \in MentionTurns : UpdateContext(sessionId, queryData)
  \/ \E sessionId \in Sessions : ClearContext(sessionId)
  \/ \E sessionId \in Sessions, reference \in References, type \in ReferenceTypes :
        ResolveReference(sessionId, reference, type)

SpecMentions == InitCH /\ [][NextMentions]_vars

(***************************************************************************)
(* The processor whose ContextHandler is also told to forget sessions that  *)
(* have a context, while requests are being served                          *)
(***************************************************************************)
\* a session that has a context is told to forget
ClearExisting(sessionId) == contexts[sessionId] # 0 /\ ClearContext(sessionId)

NextClear ==
  \/ Next
  \/ \E sessionId \in Sessions : ClearExisting(sessionId)

SpecClear == Init /\ [][NextClear]_vars

(***************************************************************************)
(* The three tools of the server: process_natural_language, served by the  *)
(* processor, and get_nlp_context and clear_nlp_context, each of which      *)
(* makes a ContextHandler of its own for the request.                       *)
(***************************************************************************)
\* the store of a ContextHandler that has just been constructed
NewStore == [s \in Sessions |-> 0]

\* handleGetContext: getContext on a new ContextHandler, whose store is empty, makes
\* a context for the session; the response carries it
HandleGetContext(c, sessionId) ==
  /\ calls[c].pc \in Free
  /\ \A d \in Slots : calls[d].pc \in Free /\ d # c => c = "a"
  /\ started < MaxCalls
  /\ started' = started + 1
  /\ NewStore[sessionId] = 0
  /\ calls' = [calls EXCEPT ![c] =
       [IdleCall EXCEPT !.pc = "responded",
                        !.response = [success |-> TRUE,
                                      data |-> createNewContext(sessionId, "anonymous"),
                                      message |-> "Contexto obtenido correctamente"]]]
  /\ UNCHANGED <<contexts, heap, maxContextQueries, lastIndex, thrown, returned, log, soloIndex>>

\* handleClearContext: clearContext on a new ContextHandler deletes the session from
\* that handler's store, which is dropped when the request ends
HandleClearContext(c, sessionId) ==
  /\ calls[c].pc \in Free
  /\ \A d \in Slots : calls[d].pc \in Free /\ d # c => c = "a"
  /\ started < MaxCalls
  /\ started' = started + 1
  /\ [NewStore EXCEPT ![sessionId] = 0] = NewStore
  /\ calls' = [calls EXCEPT ![c] =
       [IdleCall EXCEPT !.pc = "responded",
                        !.response = [success |-> TRUE,
                                      cleared |-> sessionId,
                                      message |-> "Contexto limpiado correctamente"]]]
  /\ UNCHANGED <<contexts, heap, maxContextQueries, lastIndex, thrown, returned, log, soloIndex>>

NextTools ==
  \/ Next
  \/ \E c \in Slots, sessionId \in Sessions : HandleGetContext(c, sessionId)
  \/ \E c \in Slots, sessionId \in Sessions : HandleClearContext(c, sessionId)

SpecTools == Init /\ [][NextTools]_vars

(***************************************************************************)
(* The last stages of processQuery on their own: determineClarifications,   *)
(* calculateConfidence and the context update, for a call whose earlier     *)
(* stages have left it any intent, any set of filled entity slots, a valid  *)
(* or an invalid validation result and a low, a borderline or a high        *)
(* semantic confidence                                                      *)
(***************************************************************************)
\* enum IntentType
IntentTypes ==
  {"list_bases", "list_records", "create_record", "update_record", "delete_record",
   "search_records", "list_tables", "get_record", "create_webhook", "list_webhooks",
   "delete_webhook", "get_webhook_payloads", "get_base_schema", "describe_table",
   "create_table", "delete_table", "update_table", "create_field", "delete_field",
   "update_field", "list_field_types", "batch_create_records", "batch_update_records",
   "batch_delete_records", "batch_upsert_records", "upload_attachment",
   "list_collaborators", "list_shares", "create_view", "get_view_metadata",
   "get_table_views", "create_base", "analyze_data", "create_report", "data_insights",
   "optimize_workflow", "smart_schema_design", "data_quality_audit",
   "predictive_analytics", "natural_language_query", "smart_data_transformation",
   "automation_recommendations", "unknown"}

\* the entity slots filled in the calls explored, each with a value
SlotValues ==
  [tableName |-> "tareas", recordId |-> "rec1", status |-> "activo",
   webhookUrl |-> "https://example.com/hook", attachmentUrl |-> "https://example.com/a.png"]

\* a ValidationResult, valid or with one error
ValidationOf(isValid) ==
  [isValid |-> isValid,
   errors |-> IF isValid THEN <<>> ELSE <<Error("fields", "MISSING_FIELDS")>>,
   warnings |-> <<>>,
   suggestions |-> <<>>]

\* confidences of the semantic analyzer: of no word at all (0.3), of one action and
\* two entities (0.7), of one action and three entities (0.8)
SemanticConfidences ==
  {semanticConfidence(0, 0, 0), semanticConfidence(1, 2, 0), semanticConfidence(1, 3, 0)}

\* a call of session default about to run stage 9
ScoreCall(intent, slots, isValid, confidence) ==
  [IdleCall EXCEPT !.pc = "updateContext",
                   !.query = "q",
                   !.sessionId = "default",
                   !.normalizedQuery = "q",
                   !.context = 1,
                   !.semanticAnalysis =
                      [confidence |-> confidence, entities |-> {}, actions |-> 0, context |-> 0],
                   !.intent = intent,
                   !.entities = [k \in slots |-> SlotValues[k]],
                   !.validation = ValidationOf(isValid)]

InitScore ==
  /\ contexts = [s \in Sessions |-> IF s = "default" THEN 1 ELSE 0]
  /\ heap = <<createNewContext("default", "anonymous")>>
  /\ maxContextQueries = DefaultMaxContextQueries
  /\ lastIndex = ZeroIndex
  /\ \E intent \in IntentTypes, slots \in SUBSET DOMAIN SlotValues, isValid \in BOOLEAN,
        confidence \in SemanticConfidences :
       calls = [c \in Slots |-> IF c = "a" THEN ScoreCall(intent, slots, isValid, confidence)
                                ELSE IdleCall]
  /\ started = 1
  /\ thrown = FALSE
  /\ returned = <<>>
  /\ log = <<<<>>>>
  /\ soloIndex = [s \in Sessions |-> ZeroIndex]

NextScore ==
  \/ \E c \in Slots : UpdateContextStep(c)
  \/ \E c \in Slots : StageFails(c)

SpecScore == InitScore /\ [][NextScore]_vars

(***************************************************************************)
(* ValidationEngine.validate on its own: stage 8 of a call whose intent and *)
(* parameters are any of those below                                        *)
(***************************************************************************)
BatchIntents ==
  {"batch_create_records", "batch_update_records", "batch_delete_records",
   "batch_upsert_records"}

ValidatedIntents ==
  BatchIntents \cup {"list_records", "create_record", "update_record", "unknown"}

\* the values of each parameter in the calls explored
ParameterValues ==
  [table |-> {"tareas", "1 tabla"},
   recordId |-> {"rec1", "rec-1"},
   maxRecords |-> {5, 10, 11, 50},
   fields |-> {[Status |-> "activo"], EmptyObject}]

\* the QueryParameters object that has the parameters named in set, with the given values
ParametersOf(set, table, recordId, maxRecords, fields) ==
  SetIf("fields" \in set,
        SetIf("maxRecords" \in set,
              SetIf("recordId" \in set,
                    SetIf("table" \in set, EmptyObject, "table", table),
                    "recordId", recordId),
              "maxRecords", maxRecords),
        "fields", fields)

\* a call of session default about to run stage 8
ValidateCall(intent, parameters) ==
  [IdleCall EXCEPT !.pc = "validate",
                   !.query = "q",
                   !.sessionId = "default",
                   !.normalizedQuery = "q",
                   !.context = 1,
                   !.intent = intent,
                   !.parameters = parameters]

\* stage 8: validationEngine.validate
ValidateStep(c) ==
  LET call == calls[c]
  IN /\ call.pc = "validate"
     /\ calls' = [calls EXCEPT
          ![c].pc = "updateContext",
          ![c].validation = validate(call.intent, call.parameters, heap[call.context])]
     /\ UNCHANGED <<contexts, heap, maxContextQueries, lastIndex, started, thrown, returned, log,
                    soloIndex>>

InitValidate ==
  /\ contexts = [s \in Sessions |-> IF s = "default" THEN 1 ELSE 0]
  /\ heap = <<createNewContext("default", "anonymous")>>
  /\ maxContextQueries = DefaultMaxContextQueries
  /\ lastIndex = ZeroIndex
  /\ \E intent \in ValidatedIntents, set \in SUBSET DOMAIN ParameterValues,
        table \in ParameterValues.table, recordId \in ParameterValues.recordId,
        maxRecords \in ParameterValues.maxRecords, fields \in ParameterValues.fields :
       calls = [c \in Slots |->
                  IF c = "a"
                  THEN ValidateCall(intent,
                                    ParametersOf(set, table, recordId, maxRecords, fields))
                  ELSE IdleCall]
  /\ started = 1
  /\ thrown = FALSE
  /\ returned = <<>>
  /\ log = <<<<>>>>
  /\ soloIndex = [s \in Sessions |-> ZeroIndex]

NextValidate == \E c \in Slots : ValidateStep(c)

SpecValidate == InitValidate /\ [][NextValidate]_vars

(***************************************************************************)
(* The scenarios: requests of one session served one after the other by a  *)
(* new processor, the session starting with no context or with a context    *)
(* whose current table has been set (setCurrentContext) to "Tareas"         *)
(***************************************************************************)
\* the context of a session after setCurrentContext(sessionId, table)
ContextWithTable(sessionId, table) ==
  [createNewContext(sessionId, "anonymous") EXCEPT !.currentTable = table]

InitScenario ==
  /\ \E known \in BOOLEAN :
       /\ contexts = [s \in Sessions |-> IF known /\ s = "default" THEN 1 ELSE 0]
       /\ heap = IF known THEN <<ContextWithTable("default", "Tareas")>> ELSE <<>>
       /\ log = IF known THEN <<<<>>>> ELSE <<>>
  /\ maxContextQueries = DefaultMaxContextQueries
  /\ lastIndex = ZeroIndex
  /\ calls = [c \in Slots |-> IdleCall]
  /\ started = 0
  /\ thrown = FALSE
  /\ returned = <<>>
  /\ soloIndex = [s \in Sessions |-> ZeroIndex]

NextScenario ==
  \/ \E query \in ScenarioQueries : ReceiveQuery("a", query, "default")
  \/ MapIntentStep("a")
  \/ ExtractEntitiesStep("a")
  \/ UpdateContextStep("a")
  \/ Respond("a")

SpecScenario == InitScenario /\ [][NextScenario]_vars

\* the same for the queries that bear a date
NextDates ==
  \/ \E query \in DateQueries : ReceiveQuery("a", query, "default")
  \/ MapIntentStep("a")
  \/ ExtractEntitiesStep("a")
  \/ UpdateContextStep("a")
  \/ Respond("a")

SpecDates == InitScenario /\ [][NextDates]_vars

(***************************************************************************)
(* The properties                                                          *)
(***************************************************************************)
Returned(c) == calls[c].pc = "returned"

\* C1: every ProcessedQuery that processQuery returns, on the normal path and on
\* the fault path, after any earlier calls, has requiresClarification true if
\* and only if its clarification list is non-empty
C1_RequiresClarificationIffClarifications ==
  \A c \in Slots :
    Returned(c) =>
      (calls[c].result.requiresClarification <=> Len(calls[c].result.clarifications) > 0)

\* a call has returned on the normal path with a clarification to ask, and another
\* request has been served before it
C1_Witness ==
  \E c \in Slots :
    /\ Returned(c)
    /\ ~calls[c].faulted
    /\ Len(calls[c].result.clarifications) > 0
    /\ calls[c].result.requiresClarification
    /\ started = MaxCalls

\* C2: processQuery never propagates an exception: a call one of whose stages
\* has failed returns a result with intent unknown, confidence 0,
\* requiresClarification true and exactly one clarification, of kind
\* ambiguous_reference
C2_FaultGivesTerminalResult ==
  \A c \in Slots :
    Returned(c) /\ calls[c].faulted =>
      /\ calls[c].result.intent = "unknown"
      /\ calls[c].result.confidence = Zero
      /\ calls[c].result.requiresClarification = TRUE
      /\ Len(calls[c].result.clarifications) = 1
      /\ calls[c].result.clarifications[1].type = "ambiguous_reference"

\* a stage of a call has failed and the call has returned
C2_Witness == \E c \in Slots : Returned(c) /\ calls[c].faulted

\* the step of call c that runs intentMapper.mapIntent
MapsIntent(c) == calls[c].pc = "mapIntent" /\ calls'[c].pc = "extractEntities"

\* the patterns of the table that match a query: a pattern matches a string when its
\* test succeeds from lastIndex 0
MatchingPatterns(query) == {p \in 1..NumPatterns : TestOf[query][p][0].ok}

\* C3: intent classification is deterministic: mapIntent returns the same intent
\* for the same query and context no matter which calls were made before, that
\* is, the intent a fresh mapper returns
C3_IntentIndependentOfEarlierCalls ==
  [][\A c \in Slots :
       MapsIntent(c) =>
         calls'[c].intent =
           mapIntent(calls[c].normalizedQuery, ZeroIndex, heap[calls[c].context]).intent]_vars

\* C4: for a query that matches at least one pattern of the table, mapIntent
\* returns the intent of the first matching pattern in table order, in every
\* state of the mapper
C4_FirstMatchingPatternWins ==
  [][\A c \in Slots :
       MapsIntent(c) /\ MatchingPatterns(calls[c].normalizedQuery) # {} =>
         calls'[c].intent =
           Patterns[First(MatchingPatterns(calls[c].normalizedQuery))].intent]_vars

\* C5: for any cap N >= 0, a session's history never has more than N entries
\* after an updateContext call has returned
C5_HistoryWithinCap ==
  \A s \in Sessions :
    contexts[s] # 0 => Len(heap[contexts[s]].previousQueries) <= maxContextQueries

\* the last n elements of a sequence
LastOf(seq, n) == SubSeq(seq, Len(seq) - n + 1, Len(seq))

\* C6: eviction is FIFO: with a cap N >= 1, after k updateContext calls on a
\* context its history is exactly the last min(k, N) turns, in the order in
\* which the calls ran
C6_HistoryIsLastTurns ==
  maxContextQueries >= 1 =>
    \A ref \in 1..Len(heap) :
      heap[ref].previousQueries = LastOf(log[ref], Min(Len(log[ref]), maxContextQueries))

\* a context has had more turns than the cap, the first of them unlike the last,
\* so that an entry has been dropped
C6_Witness ==
  \E ref \in 1..Len(heap) :
    /\ maxContextQueries >= 1
    /\ Len(log[ref]) > maxContextQueries
    /\ log[ref][1] # log[ref][Len(log[ref])]

\* C7: a processed query whose validation result holds an error is never
\* executed: the handler does not call the tool executor for it
C7_InvalidQueryNotExecuted ==
  [][\A c \in Slots :
       Returned(c) /\ calls'[c].pc = "responded" /\ calls'[c].executed =>
         Len(calls[c].validation.errors) = 0]_vars

\* a query matches no pattern, no anaphora rule and no keyword class
Unrecognised(query, context) ==
  MatchingPatterns(query) = {} /\ mapIntentFallback(query, context) = "unknown"

\* C8: for a query that matches no pattern, no anaphora rule and no keyword
\* class, processQuery returns intent unknown, confidence 0,
\* requiresClarification true and exactly one clarification, of kind
\* ambiguous_reference
C8_UnrecognisedQueryAsksToRephrase ==
  \A c \in Slots :
    Returned(c) /\ Unrecognised(calls[c].normalizedQuery, heap[calls[c].context]) =>
      /\ calls[c].result.intent = "unknown"
      /\ calls[c].result.confidence = Zero
      /\ calls[c].result.requiresClarification
      /\ Len(calls[c].result.clarifications) = 1
      /\ calls[c].result.clarifications[1].type = "ambiguous_reference"

\* C9: sessions are independent: the intent of a call is the one the call gets
\* in the run in which no query of another session is processed, where the
\* mapper has seen the queries of the call's own session only
C9_IntentIndependentOfOtherSessions ==
  [][\A c \in Slots :
       MapsIntent(c) =>
         calls'[c].intent =
           mapIntent(calls[c].normalizedQuery, soloIndex[calls[c].sessionId],
                     heap[calls[c].context]).intent]_vars

\* a step of call c that is not the step of its context update
BeforeUpdate(c) == calls'[c].pc # calls[c].pc /\ calls[c].pc # "updateContext"

\* the context of every session that has one is left as it is
ContextsKept ==
  \A s \in Sessions :
    contexts[s] # 0 => contexts'[s] = contexts[s] /\ heap'[contexts[s]] = heap[contexts[s]]

\* no session is added, except the given one with an empty context
SessionsKeptBut(sessionId) ==
  \A s \in Sessions :
    contexts[s] = 0 =>
      \/ contexts'[s] = 0
      \/ s = sessionId /\ heap'[contexts'[s]] = createNewContext(s, "anonymous")

\* C10, as the code has it: before its context-update step a call leaves the
\* context of every session that has one exactly as it is; the one change it
\* can make to the store is to add an empty context for its own session, when
\* the session has none
C10_OnlyAddsOwnEmptyContext ==
  [][\A c \in Slots :
       BeforeUpdate(c) => ContextsKept /\ SessionsKeptBut(calls'[c].sessionId)]_vars

\* a call has failed before its context update while the store held a context
\* with history, and the call's session has a context
C10_Witness ==
  \E c \in Slots :
    /\ Returned(c)
    /\ calls[c].faulted
    /\ contexts[calls[c].sessionId] # 0
    /\ \E s \in Sessions : contexts[s] # 0 /\ Len(heap[contexts[s]].previousQueries) > 0

\* C10, as stated: before its context-update step a call leaves the store, the
\* set of its sessions included, exactly as it is
C10_StoreUntouchedBeforeUpdate ==
  [][\A c \in Slots :
       BeforeUpdate(c) => ContextsKept /\ SessionsKeptBut("")]_vars

\* C11: after clear_nlp_context has been called for a session, the memory that
\* process_natural_language uses for the session is empty: the processor's
\* store holds no context for it, so that a following call starts from an
\* empty one
C11_ClearToolEmptiesMemory ==
  [][\A c \in Slots, s \in Sessions : HandleClearContext(c, s) => contexts'[s] = 0]_vars

\* the store's entry and the context of every session but the given one are left
\* as they are
OthersKept(sessionId) ==
  \A t \in Sessions \ {sessionId} :
    /\ contexts'[t] = contexts[t]
    /\ contexts[t] # 0 => heap'[contexts[t]] = heap[contexts[t]]

\* C12: clearContext(s) discards all memory of session s and nothing else:
\* afterwards the store has no entry for s and every other session's context is
\* unchanged, and the getContext(s, u) that follows returns an empty context
\* and changes no other session's either
C12_ClearDiscardsOneSession ==
  [][\A s \in Sessions :
       /\ ClearContext(s) => contexts'[s] = 0 /\ OthersKept(s)
       /\ GetContext(s) /\ contexts[s] = 0 =>
            /\ contexts'[s] # 0
            /\ heap'[contexts'[s]] = createNewContext(s, "anonymous")
            /\ OthersKept(s)]_vars

\* a session that had a context with history has been cleared and asked for
\* again: its context is empty, while another session holds a context
C12_Witness ==
  \E s \in Sessions, t \in Sessions :
    /\ s # t
    /\ contexts[s] # 0
    /\ contexts[t] # 0
    /\ heap[contexts[s]] = createNewContext(s, "anonymous")
    /\ \E ref \in 1..Len(heap) :
         /\ ref # contexts[s]
         /\ heap[ref].sessionId = s
         /\ Len(heap[ref].previousQueries) > 0

\* a call has returned on the normal path
ReturnedNormally(c) == Returned(c) /\ ~calls[c].faulted

\* the confidence as it is specified, in the arithmetic of the language's numbers:
\* min(1, 0.5 + (0.2 if the intent is not unknown) + min(0.1 * n, 0.3)
\*        + (0.2 if valid) + (0.1 if the semantic confidence exceeds 0.7))
SpecifiedConfidence(intent, n, isValid, semantic) ==
  FMin(One,
       FAdd(FAdd(FAdd(FAdd(F05, IF intent # "unknown" THEN F02 ELSE Zero),
                      FMin(FMulInt(n, F01), F03)),
                 IF isValid THEN F02 ELSE Zero),
            IF FGt(semantic, F07) THEN F01 ELSE Zero))

\* C13: on the normal path the confidence of a result is min(1, 0.5 + (0.2 if
\* the intent is not unknown) + min(0.1 * filled entity slots, 0.3) + (0.2 if
\* validation is valid) + (0.1 if the semantic confidence exceeds 0.7)), for
\* every intent, entity count, validation outcome and semantic confidence
C13_ConfidenceIsSpecifiedSum ==
  \A c \in Slots :
    ReturnedNormally(c) =>
      calls[c].result.confidence =
        SpecifiedConfidence(calls[c].intent, Cardinality(DOMAIN calls[c].entities),
                            calls[c].validation.isValid, calls[c].semanticAnalysis.confidence)

\* a call has returned on the normal path with more entity slots filled than the
\* sum counts, a semantic confidence of exactly 0.7 and a confidence below 1
C13_Witness ==
  \E c \in Slots :
    /\ ReturnedNormally(c)
    /\ Cardinality(DOMAIN calls[c].entities) > 3
    /\ calls[c].semanticAnalysis.confidence = F07
    /\ calls[c].result.confidence # One

\* x <= y
FLe(x, y) == ~FGt(x, y)

\* C14: the confidence of every ProcessedQuery lies in [0, 1], and with intent,
\* validation outcome and semantic confidence fixed it does not decrease when
\* one more entity slot is filled
C14_ConfidenceBoundedAndMonotone ==
  \A c \in Slots :
    Returned(c) =>
      /\ FLe(Zero, calls[c].result.confidence)
      /\ FLe(calls[c].result.confidence, One)
      /\ ~calls[c].faulted =>
           \A k \in DOMAIN SlotValues \ DOMAIN calls[c].entities :
             FLe(calls[c].result.confidence,
                 calculateConfidence(calls[c].intent,
                                     With(calls[c].entities, k, SlotValues[k]),
                                     calls[c].validation, calls[c].semanticAnalysis))

\* a call has returned on the normal path with every bonus and three entity
\* slots filled, so that the sum exceeds 1, and a slot is left to fill
C14_Witness ==
  \E c \in Slots :
    /\ ReturnedNormally(c)
    /\ calls[c].intent # "unknown"
    /\ calls[c].validation.isValid
    /\ FGt(calls[c].semanticAnalysis.confidence, F07)
    /\ Cardinality(DOMAIN calls[c].entities) = 3

\* the returned list holds a clarification of the given type and question
Asks(c, type, question) ==
  \E j \in 1..Len(calls[c].result.clarifications) :
    /\ calls[c].result.clarifications[j].type = type
    /\ calls[c].result.clarifications[j].question = question

\* C20: on the normal path the list holds a missing_table clarification if and
\* only if requiresTable(intent) and no tableName entity is present, and the
\* record-id missing_value clarification if and only if requiresRecordId(intent)
\* and no recordId entity is present
C20_ClarificationsFollowCapabilities ==
  \A c \in Slots :
    ReturnedNormally(c) =>
      /\ Asks(c, "missing_table", TableQuestion) <=>
           requiresTable(calls[c].intent) /\ ~Has(calls[c].entities, "tableName")
      /\ Asks(c, "missing_value", RecordIdQuestion) <=>
           requiresRecordId(calls[c].intent) /\ ~Has(calls[c].entities, "recordId")

\* a call whose intent needs a table and a record and has neither has returned
\* with both clarifications
C20_Witness ==
  \E c \in Slots :
    /\ ReturnedNormally(c)
    /\ requiresTable(calls[c].intent) /\ requiresRecordId(calls[c].intent)
    /\ DOMAIN calls[c].entities = {}
    /\ Len(calls[c].result.clarifications) = 2

\* validate has returned to call c
Validated(c) == calls[c].pc = "updateContext"

\* C15: for every ValidationResult that validate returns, isValid is true if
\* and only if the error list is empty; warnings and suggestions never make a
\* result invalid
C15_ValidIffNoErrors ==
  \A c \in Slots :
    Validated(c) => (calls[c].validation.isValid <=> Len(calls[c].validation.errors) = 0)

\* validate has returned a result that has a warning and no error
C15_Witness ==
  \E c \in Slots :
    /\ Validated(c)
    /\ Len(calls[c].validation.warnings) > 0
    /\ Len(calls[c].validation.errors) = 0

\* the parameters ask for a batch above the ceiling of 10
Oversize(parameters) == Has(parameters, "maxRecords") /\ parameters.maxRecords > 10

\* C16: for every batch intent and every requested size above 10, validate
\* reports the oversize as a LARGE_BATCH_SIZE warning and not as an error: the
\* errors are those of the same request with a size of 10
C16_OversizeIsWarningOnly ==
  \A c \in Slots :
    Validated(c) /\ calls[c].intent \in BatchIntents /\ Oversize(calls[c].parameters) =>
      /\ \E j \in 1..Len(calls[c].validation.warnings) :
           calls[c].validation.warnings[j].code = "LARGE_BATCH_SIZE"
      /\ calls[c].validation.errors =
           validate(calls[c].intent, With(calls[c].parameters, "maxRecords", 10),
                    heap[calls[c].context]).errors

\* call c returns on the normal path in this step
ReturnsNormally(c) ==
  calls[c].pc = "updateContext" /\ calls'[c].pc = "returned" /\ ~calls'[c].faulted

\* the context call c works on, as it is before the call's context update
ContextOf(c) == heap[calls[c].context]

\* C17: with an empty context, processQuery on "mostrarme todos los registros
\* en la tabla Proyectos" returns intent list_records, entity tableName
\* "Proyectos", no clarification and a confidence of 0.7 or more
C17_ListingNamesItsTable ==
  [][\A c \in Slots :
       /\ ReturnsNormally(c)
       /\ calls[c].query = ListingQuery
       /\ ContextOf(c) = createNewContext(calls[c].sessionId, "anonymous")
       => /\ calls'[c].result.intent = "list_records"
          /\ Has(calls'[c].result.entities, "tableName")
          /\ calls'[c].result.entities.tableName = "Proyectos"
          /\ calls'[c].result.clarifications = <<>>
          /\ FLe(F07, calls'[c].result.confidence)]_vars

\* C18: when the session's context has the current table "Tareas" and the
\* query is "esa tabla" with a display verb (mostrar, ver, obtener),
\* processQuery returns intent list_records and entity tableName "Tareas"
C18_AnaphoraResolvesCurrentTable ==
  [][\A c \in Slots :
       /\ ReturnsNormally(c)
       /\ calls[c].query \in AnaphoraQueries
       /\ ContextOf(c).currentTable = "Tareas"
       => /\ calls'[c].result.intent = "list_records"
          /\ Has(calls'[c].result.entities, "tableName")
          /\ calls'[c].result.entities.tableName = "Tareas"]_vars

\* C19: for the query "eliminar webhook abc123" processQuery returns intent
\* delete_webhook, entity webhookId "abc123" and no clarification
C19_WebhookDeletionNamesItsId ==
  [][\A c \in Slots :
       ReturnsNormally(c) /\ calls[c].query = WebhookQuery
       => /\ calls'[c].result.intent = "delete_webhook"
          /\ Has(calls'[c].result.entities, "webhookId")
          /\ calls'[c].result.entities.webhookId = "abc123"
          /\ calls'[c].result.clarifications = <<>>]_vars

\* the validation result of call c has an error of severity error with this code
HasError(c, code) ==
  \E j \in 1..Len(calls[c].validation.errors) :
     /\ calls[c].validation.errors[j].code = code
     /\ calls[c].validation.errors[j].severity = "error"

\* the rules validate applies to the intent of call c
RulesOf(c) ==
  IF calls[c].intent \in DOMAIN validationRules THEN validationRules[calls[c].intent] ELSE <<>>

\* C21: for every rule of the intent, validate reports the error MISSING_<FIELD>
\* when the rule's required parameter is missing and the error INVALID_<FIELD>
\* when the parameter is present and fails the rule's predicate, and in both
\* cases the result is invalid
C21_FailedRuleGivesError ==
  \A c \in Slots :
     Validated(c) =>
       \A i \in 1..Len(RulesOf(c)) :
          LET rule == RulesOf(c)[i]
              code == toUpperCase(rule.parameter)
          IN /\ rule.type = "required" /\ ~Has(calls[c].parameters, rule.parameter)
                => HasError(c, "MISSING_" \o code) /\ ~calls[c].validation.isValid
             /\ Has(calls[c].parameters, rule.parameter)
                /\ ~RuleHolds(rule, calls[c].parameters)
                => HasError(c, "INVALID_" \o code) /\ ~calls[c].validation.isValid

\* C22: for every configuration the processor can have been constructed with,
\* no session's history is longer than the configuration's maxContextQueries
C22_HistoryWithinConfiguredCap ==
  \A config \in Configs :
     maxContextQueries = ConstructedMaxContextQueries(config) =>
       \A s \in Sessions :
          contexts[s] # 0 =>
            Len(heap[contexts[s]].previousQueries) <= config.maxContextQueries

\* the context of the session of call c
SessionContext(c) == contexts[calls[c].sessionId]

\* every element of the array before is at the same position in the array after
KeptInPlace(before, after) ==
  /\ Len(before) <= Len(after)
  /\ \A j \in 1..Len(before) : after[j] = before[j]

\* C23: whatever the interleaving of the calls, a call whose context update
\* runs appends exactly one entry, its own, to the history of its session,
\* every table, record and field mentioned before is still mentioned and the
\* call's own are added, and the history is the turns in the order in which
\* the updates ran
C23_ConcurrentUpdatesLoseNothing ==
  [][\A c \in Slots :
       ReturnsNormally(c) =>
         LET before == heap[SessionContext(c)]
             after == heap'[SessionContext(c)]
             entities == calls[c].entities
         IN /\ Len(before.previousQueries) < maxContextQueries
               => after.previousQueries =
                    Append(before.previousQueries,
                           [query |-> calls[c].query, intent |-> calls[c].intent])
            /\ after.previousQueries = log'[SessionContext(c)]
            /\ KeptInPlace(before.mentionedEntities.tables, after.mentionedEntities.tables)
            /\ KeptInPlace(before.mentionedEntities.records, after.mentionedEntities.records)
            /\ KeptInPlace(before.mentionedEntities.fields, after.mentionedEntities.fields)
            /\ TruthyEntity(entities, "tableName")
               => ArrayIncludes(after.mentionedEntities.tables, entities.tableName)
            /\ TruthyEntity(entities, "recordId")
               => ArrayIncludes(after.mentionedEntities.records, entities.recordId)]_vars

\* two calls of one session were in flight together, the second to arrive updated
\* the context first, and both turns and both calls' entities are in the context
C23_Witness ==
  /\ ReturnedNormally("a") /\ ReturnedNormally("b")
  /\ calls["a"].sessionId = calls["b"].sessionId
  /\ calls["a"].query # calls["b"].query
  /\ LET context == heap[SessionContext("a")]
     IN /\ Len(context.previousQueries) = 2
        /\ context.previousQueries[1].query = calls["b"].query
        /\ context.previousQueries[2].query = calls["a"].query
        /\ Len(context.mentionedEntities.records) = 2

\* no element occurs twice in the array
NoDuplicate(arr) == \A i, j \in 1..Len(arr) : arr[i] = arr[j] => i = j

\* the mentioned-entity lists of a context
MentionLists(context) ==
  {context.mentionedEntities.tables, context.mentionedEntities.fields,
   context.mentionedEntities.records}

\* C24: no mentioned-entity list of a session holds an element twice, and as
\* long as the session keeps its context every element of each list stays
\* where it is; a session loses its context, and its lists with it, through
\* clearContext only
C24_MentionsAppendOnlyWithoutDuplicates ==
  /\ [](\A s \in Sessions :
          contexts[s] # 0 => \A list \in MentionLists(heap[contexts[s]]) : NoDuplicate(list))
  /\ [][\A s \in Sessions :
          contexts[s] # 0 =>
            IF contexts'[s] = contexts[s]
            THEN LET before == heap[contexts[s]].mentionedEntities
                     after == heap'[contexts[s]].mentionedEntities
                 IN /\ KeptInPlace(before.tables, after.tables)
                    /\ KeptInPlace(before.fields, after.fields)
                    /\ KeptInPlace(before.records, after.records)
            ELSE ClearContext(s)]_vars

\* a session whose turns have named two tables, the first of them a second time
C24_Witness ==
  \E s \in Sessions :
     /\ contexts[s] # 0
     /\ Len(log[contexts[s]]) = 3
     /\ log[contexts[s]][1] = log[contexts[s]][3]
     /\ Len(heap[contexts[s]].mentionedEntities.tables) = 2

\* the turn of MentionTurns that has this query
TurnOf(query) == CHOOSE turn \in MentionTurns : turn.query = query

\* the turns of a history that named a table, by their positions
TableTurns(history) ==
  {j \in 1..Len(history) : TruthyEntity(TurnOf(history[j].query).entities, "tableName")}

\* the table named by the most recent turn of the history that named one
LastTableOf(history) ==
  LET j == CHOOSE k \in TableTurns(history) : \A h \in TableTurns(history) : h <= k
  IN TurnOf(history[j].query).entities.tableName

\* the text has a table demonstrative
TableDemonstrative(reference) ==
  includes(toLowerCase(reference), "esa tabla") \/ includes(toLowerCase(reference), "la tabla")

\* C25: resolveReference(s, text, "table") returns the current table at
\* confidence 0.9 when the text has a table demonstrative and the current table
\* is set; otherwise, when a turn of the session has named a table, the table
\* named by the most recent such turn, at confidence 0.7 with at most 3
\* alternatives; otherwise an unresolved reference at confidence 0
C25_TableReferenceResolved ==
  [][\A s \in Sessions, reference \in References :
       ResolveReference(s, reference, "table") =>
         LET context == heap[contexts[s]]
             result == returned'[1]
         IN IF contexts[s] # 0 /\ TableDemonstrative(reference) /\ Truthy(context.currentTable)
            THEN /\ result.resolved
                 /\ result.reference = context.currentTable
                 /\ result.confidence = F09
            ELSE IF contexts[s] # 0 /\ TableTurns(log[contexts[s]]) # {}
            THEN /\ result.resolved
                 /\ result.reference = LastTableOf(log[contexts[s]])
                 /\ result.confidence = F07
                 /\ Len(result.alternatives) <= 3
            ELSE ~result.resolved /\ result.confidence = Zero]_vars

\* C26: the dateReference entity of a result is the date that
\* DateProcessor.processDateReference resolves for the text of the query, and
\* the result has no dateReference exactly when the resolver answers invalid
C26_DatesResolvedByDateProcessor ==
  \A c \in Slots :
     ReturnedNormally(c) =>
       LET resolved == processDateReference(calls[c].query)
           entities == calls[c].result.entities
       IN IF resolved.format = "invalid"
          THEN ~Has(entities, "dateReference")
          ELSE /\ Has(entities, "dateReference")
               /\ entities.dateReference = resolved.processedDate

\* call c runs its entity extraction in this step
ExtractsEntities(c) == calls[c].pc = "extractEntities" /\ calls'[c].pc = "updateContext"

\* C27: the tableName (recordId) of the extracted entities is the one the query
\* text gives when it gives one; it is the context's currentTable
\* (currentRecordId) when the text gives none, has the demonstrative and the
\* context has a value; it is absent otherwise
C27_ContextValueOnlyForDemonstrative ==
  [][\A c \in Slots :
       ExtractsEntities(c) =>
         LET query == calls[c].normalizedQuery
             context == ContextOf(c)
             entities == calls'[c].entities
             tableMatch == match(query, TableRe)
             recordIdMatch == match(query, RecordIdRe)
         IN /\ IF tableMatch.end # -1
               THEN Has(entities, "tableName") /\ entities.tableName = trim(tableMatch.cap)
               ELSE IF includes(query, "esa tabla") /\ Truthy(context.currentTable)
               THEN Has(entities, "tableName") /\ entities.tableName = context.currentTable
               ELSE ~Has(entities, "tableName")
            /\ IF recordIdMatch.end # -1
               THEN Has(entities, "recordId") /\ entities.recordId = recordIdMatch.cap
               ELSE IF includes(query, "ese registro") /\ Truthy(context.currentRecordId)
               THEN Has(entities, "recordId") /\ entities.recordId = context.currentRecordId
               ELSE ~Has(entities, "recordId")]_vars

\* C28: for every session that has a context, a current table that is set is
\* one of the mentioned tables and a current record that is set is one of the
\* mentioned records
C28_CurrentIsMentioned ==
  \A s \in Sessions :
     contexts[s] # 0 =>
       LET context == heap[contexts[s]]
       IN /\ Truthy(context.currentTable)
             => ArrayIncludes(context.mentionedEntities.tables, context.currentTable)
          /\ Truthy(context.currentRecordId)
             => ArrayIncludes(context.mentionedEntities.records, context.currentRecordId)

\* a session whose current table and current record are not the last mentioned ones
C28_Witness ==
  \E s \in Sessions :
     /\ contexts[s] # 0
     /\ LET context == heap[contexts[s]]
        IN /\ Len(context.mentionedEntities.tables) = 2
           /\ context.currentTable = context.mentionedEntities.tables[1]
           /\ Truthy(context.currentRecordId)

\* the result of call c asks for the table
AsksForTable(result) ==
  \E j \in 1..Len(result.clarifications) : result.clarifications[j].type = "missing_table"

\* C29: a current table that is set stays set as long as the session keeps its
\* context; a call whose entities are extracted while the current table is set
\* has a tableName, the one of the text or else the current table; and a call
\* that has a tableName returns it and does not ask for the table
C29_CurrentTableIsSticky ==
  [][/\ \A s \in Sessions :
          contexts[s] # 0 /\ Truthy(heap[contexts[s]].currentTable) /\ ~ClearContext(s)
          => contexts'[s] = contexts[s] /\ Truthy(heap'[contexts[s]].currentTable)
     /\ \A c \in Slots :
          ExtractsEntities(c) /\ Truthy(ContextOf(c).currentTable)
          => LET tableMatch == match(calls[c].normalizedQuery, TableRe)
             IN /\ TruthyEntity(calls'[c].entities, "tableName")
                /\ calls'[c].entities.tableName =
                     IF tableMatch.end # -1 /\ ~includes(calls[c].normalizedQuery, "esa tabla")
                     THEN trim(tableMatch.cap) ELSE ContextOf(c).currentTable
     /\ \A c \in Slots :
          ReturnsNormally(c) /\ TruthyEntity(calls[c].entities, "tableName")
          => /\ Has(calls'[c].result.entities, "tableName")
             /\ calls'[c].result.entities.tableName = calls[c].entities.tableName
             /\ ~AsksForTable(calls'[c].result)]_vars

\* a call whose query names no table has returned the current table of its
\* session, for an intent that needs a table, without asking for one
C29_Witness ==
  \E c \in Slots :
     /\ ReturnedNormally(c)
     /\ match(calls[c].normalizedQuery, TableRe).end = -1
     /\ requiresTable(calls[c].result.intent)
     /\ Has(calls[c].result.entities, "tableName")
     /\ calls[c].result.entities.tableName = "tareas"
     /\ calls[c].result.clarifications = <<>>

\* call c starts in this step: processQuery up to its getContext
Fetches(c) ==
  /\ calls[c].pc \in Free
  /\ calls'[c].pc = "mapIntent"
  /\ calls'[c].context = contexts'[calls'[c].sessionId]

====
